---- MODULE Spec2Model ----
(***************************************************************************)
(* A model of the request pipeline of the jarvis backend: the intent       *)
(* extractor (core/intent.py), the planner (core/planner.py), the skill    *)
(* registry (core/skill_registry.py), execute_plan (routes/ask.py) and the *)
(* memory manager (core/memory.py).                                        *)
(*                                                                         *)
(* Python values are tagged records [t, v]: a dict is Obj(f) with f a      *)
(* function from key names to values, a list is Arr(seq), None is NoneV.   *)
(* A str is either Str("literal") for text the code or a collaborator      *)
(* writes out, or Txt(<<"c","h","a","r","s">>) for text that is cut out of *)
(* an utterance character by character.                                    *)
(***************************************************************************)
EXTENDS Integers, Sequences, FiniteSets, TLC

VARIABLES
    pc,             \* position of the operation under study
    message,        \* the utterance (a sequence of characters)
    intent,         \* the intent (extract_intent's result, plan's argument)
    plan,           \* the plan (Planner.plan's result, execute_plan's argument)
    brain_log,      \* the prompts passed to Brain.generate_response, in call order
    results,        \* execute_plan: the local list `results`
    skills_used,    \* execute_plan: the local list `skills_used`
    skill_runs,     \* the skill.run invocations made, in call order
    outcome,        \* what the operation under study returned or raised
    user_preferences,       \* rows of table user_preferences
    conversation_history,   \* rows of table conversation_history
    memory_collection,      \* entries of the Chroma collection semantic_memory
    now,            \* the value datetime.utcnow() reads
    mem_log,        \* the arguments of the save calls completed, in call order
    mode,           \* the delivery mode of the turn handler: "ask" or "ws"
    turns,          \* the number of queries the turn handler has received
    sent,           \* what the client was sent: HTTP responses or WebSocket messages, in order
    reply,          \* the turn handler's local `response`
    turn_context,   \* the turn handler's locals memory_context, personalization_context
    brain_history,  \* Brain.conversation_history, the rolling window
    user_facts,     \* rows of table user_facts
    stages          \* the stages of the current turn that have finished, in order

pipeVars == <<message, intent, plan, brain_log, results, skills_used, skill_runs, outcome>>
memVars == <<user_preferences, conversation_history, memory_collection, now, mem_log>>
turnVars == <<mode, turns, sent, reply, turn_context, brain_history, user_facts, stages>>
vars == <<pc, pipeVars, memVars, turnVars>>

----------------------------------------------------------------------------
(* Python values *)

Str(s) == [t |-> "str", v |-> s]
Txt(cs) == [t |-> "txt", v |-> cs]
Num(n) == [t |-> "num", v |-> n]
Bool(b) == [t |-> "bool", v |-> b]
Obj(f) == [t |-> "obj", v |-> f]
Arr(s) == [t |-> "arr", v |-> s]
NoneV == [t |-> "none", v |-> "None"]
EmptyDict == Obj(<<>>)

IsDict(x) == x.t = "obj"
Has(d, k) == k \in DOMAIN d.v
\* dict.get(k, default)
Get(d, k, default) == IF Has(d, k) THEN d.v[k] ELSE default
\* bool(x) for the values the model holds
Truthy(x) ==
    CASE x.t = "none" -> FALSE
      [] x.t = "bool" -> x.v
      [] x.t = "num" -> x.v # 0
      [] x.t = "str" -> x.v # ""
      [] x.t = "txt" -> x.v # <<>>
      [] x.t = "arr" -> x.v # <<>>
      [] x.t = "obj" -> DOMAIN x.v # {}
      [] OTHER -> TRUE

----------------------------------------------------------------------------
(* str operations, on sequences of one-character strings *)

Whitespace == {" "}
\* the backquote character, which a TLA+ string cannot hold
Backquote == "BACKQUOTE"
UpperLetters == <<"A","B","C","D","E","F","G","H","I","J","K","L","M",
                  "N","O","P","Q","R","S","T","U","V","W","X","Y","Z">>
LowerLetters == <<"a","b","c","d","e","f","g","h","i","j","k","l","m",
                  "n","o","p","q","r","s","t","u","v","w","x","y","z">>
Letters == {UpperLetters[i] : i \in 1..26} \cup {LowerLetters[i] : i \in 1..26}
\* the characters regex \w matches
WordChars == Letters \cup {"0","1","2","3","4","5","6","7","8","9","_"}

LowerChar(c) ==
    IF \E i \in 1..26 : UpperLetters[i] = c
    THEN LowerLetters[CHOOSE i \in 1..26 : UpperLetters[i] = c]
    ELSE c
\* str.lower()
Lower(s) == [i \in 1..Len(s) |-> LowerChar(s[i])]

IsPrefixAt(s, p, i) ==
    /\ i >= 1
    /\ i + Len(p) - 1 <= Len(s)
    /\ \A k \in 1..Len(p) : s[i + k - 1] = p[k]
\* str.find(p), 1-based; 0 when p does not occur
Find(s, p) ==
    IF \E i \in 1..Len(s) : IsPrefixAt(s, p, i)
    THEN CHOOSE i \in 1..Len(s) : IsPrefixAt(s, p, i) /\ \A j \in 1..(i-1) : ~IsPrefixAt(s, p, j)
    ELSE 0
\* p in s
Contains(s, p) == \E i \in 1..Len(s) : IsPrefixAt(s, p, i)
\* s.startswith(p)
StartsWith(s, p) == IsPrefixAt(s, p, 1)
\* s.split(p, 1)[1] when p occurs in s: the text after the first occurrence
AfterFirst(s, p) == SubSeq(s, Find(s, p) + Len(p), Len(s))

RECURSIVE LStrip(_)
LStrip(s) == IF s # <<>> /\ s[1] \in Whitespace THEN LStrip(Tail(s)) ELSE s
RECURSIVE RStrip(_)
RStrip(s) == IF s # <<>> /\ s[Len(s)] \in Whitespace THEN RStrip(SubSeq(s, 1, Len(s) - 1)) ELSE s
\* str.strip()
Strip(s) == RStrip(LStrip(s))

\* the end of the run of non-whitespace characters that starts at i
RECURSIVE RunEnd(_, _)
RunEnd(s, i) == IF i < Len(s) /\ s[i + 1] \notin Whitespace THEN RunEnd(s, i + 1) ELSE i
\* str.split(): the maximal runs of non-whitespace characters
RECURSIVE SplitWords(_)
SplitWords(s) ==
    LET r == LStrip(s) IN
    IF r = <<>> THEN <<>>
    ELSE LET e == RunEnd(r, 1) IN <<SubSeq(r, 1, e)>> \o SplitWords(SubSeq(r, e + 1, Len(r)))
\* " ".join(words)
RECURSIVE JoinWords(_)
JoinWords(ws) ==
    IF ws = <<>> THEN <<>>
    ELSE IF Len(ws) = 1 THEN ws[1]
    ELSE ws[1] \o <<" ">> \o JoinWords(Tail(ws))

----------------------------------------------------------------------------
(* IntentExtractor (core/intent.py) *)

\* the string literals of intent.py and planner.py, as character sequences
W ==
    [open |-> <<"o","p","e","n">>,
     launch |-> <<"l","a","u","n","c","h">>,
     start |-> <<"s","t","a","r","t">>,
     play |-> <<"p","l","a","y">>,
     search |-> <<"s","e","a","r","c","h">>,
     find |-> <<"f","i","n","d">>,
     look_up |-> <<"l","o","o","k"," ","u","p">>,
     google |-> <<"g","o","o","g","l","e">>,
     youtube |-> <<"y","o","u","t","u","b","e">>,
     run |-> <<"r","u","n">>,
     execute |-> <<"e","x","e","c","u","t","e">>,
     command |-> <<"c","o","m","m","a","n","d">>,
     terminal |-> <<"t","e","r","m","i","n","a","l">>,
     read |-> <<"r","e","a","d">>,
     show |-> <<"s","h","o","w">>,
     display |-> <<"d","i","s","p","l","a","y">>,
     file |-> <<"f","i","l","e">>,
     vs_code |-> <<"v","s"," ","c","o","d","e">>,
     visual_studio_code |-> <<"v","i","s","u","a","l"," ","s","t","u","d","i","o"," ","c","o","d","e">>,
     vs |-> <<"v","s">>,
     code |-> <<"c","o","d","e">>,
     vscode |-> <<"v","s","c","o","d","e">>,
     the |-> <<"t","h","e">>,
     a |-> <<"a">>,
     an |-> <<"a","n">>,
     and |-> <<"a","n","d">>,
     then |-> <<"t","h","e","n">>,
     after |-> <<"a","f","t","e","r">>,
     also |-> <<"a","l","s","o">>,
     plus |-> <<"p","l","u","s">>,
     comma |-> <<",">>,
     create |-> <<"c","r","e","a","t","e">>,
     write |-> <<"w","r","i","t","e">>,
     make |-> <<"m","a","k","e">>,
     java |-> <<"j","a","v","a">>,
     python |-> <<"p","y","t","h","o","n">>,
     program |-> <<"p","r","o","g","r","a","m">>,
     txt |-> <<"t","x","t">>,
     py |-> <<"p","y">>,
     json |-> <<"j","s","o","n">>,
     md |-> <<"m","d">>,
     yaml |-> <<"y","a","m","l">>,
     yml |-> <<"y","m","l">>,
     xml |-> <<"x","m","l">>,
     html |-> <<"h","t","m","l">>,
     css |-> <<"c","s","s">>,
     js |-> <<"j","s">>]

\* the fixed confidences of the rules, in hundredths
ConfOpenApp == 90
ConfPlay == 95
ConfSearchYoutube == 90
ConfSearch == 85
ConfRunCommand == 90
ConfReadFile == 80
ConfDefault == 50
\* extract_intent's threshold 0.7, in hundredths
ConfThreshold == 70

OpenKeywords == <<W.open, W.launch, W.start>>
SearchKeywords == <<W.search, W.find, W.look_up, W.google, W.youtube>>
RunKeywords == <<W.run, W.execute, W.command, W.terminal>>
CommandKeywords == <<W.run, W.execute, W.command>>
ReadKeywords == <<W.read, W.show, W.display, W.file>>
AppPatterns == {W.vs_code, W.visual_studio_code, W.vs, W.code}
Articles == {W.the, W.a, W.an}

\* any(keyword in s for keyword in kws)
AnyIn(kws, s) == \E i \in 1..Len(kws) : Contains(s, kws[i])

\* one round of _extract_app_name's loop: the name found after `keyword`, or NoneV
AppNameAfter(message_lower, keyword) ==
    LET remaining == Strip(AfterFirst(message_lower, keyword))
        words == SplitWords(remaining)
    IN  IF \E p \in AppPatterns : StartsWith(remaining, p) THEN Txt(W.vscode)
        ELSE IF words = <<>> THEN NoneV
        ELSE IF words[1] \in Articles /\ Len(words) > 1
             THEN \* the two vscode tests under this branch compare words[0], an article
                  IF words[1] = W.vs /\ words[2] = W.code THEN Txt(W.vscode)
                  ELSE IF Len(words) >= 3 /\ JoinWords(SubSeq(words, 1, 3)) = W.visual_studio_code
                       THEN Txt(W.vscode)
                  ELSE Txt(JoinWords(SubSeq(words, 1, 2)))
             ELSE IF Len(words) >= 2 /\ words[1] = W.vs /\ words[2] = W.code THEN Txt(W.vscode)
                  ELSE Txt(words[1])

RECURSIVE AppNameLoop(_, _)
AppNameLoop(message_lower, kws) ==
    IF kws = <<>> THEN NoneV
    ELSE IF Contains(message_lower, Head(kws)) /\ AppNameAfter(message_lower, Head(kws)) # NoneV
         THEN AppNameAfter(message_lower, Head(kws))
         ELSE AppNameLoop(message_lower, Tail(kws))

_extract_app_name(msg) == AppNameLoop(Lower(msg), OpenKeywords)

\* the text after the first keyword of kws (in order) that occurs in s, or NoneV
RECURSIVE AfterFirstKeyword(_, _)
AfterFirstKeyword(s, kws) ==
    IF kws = <<>> THEN NoneV
    ELSE IF Contains(s, Head(kws)) THEN Txt(Strip(AfterFirst(s, Head(kws))))
    ELSE AfterFirstKeyword(s, Tail(kws))

_extract_search_query(msg) ==
    LET message_lower == Lower(msg) IN
    IF Contains(message_lower, W.play) THEN Txt(Strip(AfterFirst(message_lower, W.play)))
    ELSE IF AnyIn(SearchKeywords, message_lower) THEN AfterFirstKeyword(message_lower, SearchKeywords)
    ELSE Txt(msg)

\* str.strip(chars), for the chars dollar and backquote
RECURSIVE StripChars(_, _)
StripChars(s, chars) ==
    IF s # <<>> /\ s[1] \in chars THEN StripChars(Tail(s), chars)
    ELSE IF s # <<>> /\ s[Len(s)] \in chars THEN StripChars(SubSeq(s, 1, Len(s) - 1), chars)
    ELSE s

_extract_command(msg) ==
    LET message_lower == Lower(msg) IN
    IF AnyIn(CommandKeywords, message_lower) THEN AfterFirstKeyword(message_lower, CommandKeywords)
    ELSE IF StartsWith(msg, <<"$">>) \/ StartsWith(msg, <<Backquote>>)
         THEN Txt(Strip(StripChars(msg, {"$", Backquote})))
    ELSE NoneV

Quotes == {"\"", "'"}
Extensions == {W.txt, W.py, W.json, W.md, W.yaml, W.yml, W.xml, W.html, W.css, W.js}
MaxOf(S) == CHOOSE x \in S : \A y \in S : y <= x
MinOf(S) == CHOOSE x \in S : \A y \in S : x <= y

\* the end of the run of \w characters that starts at i
RECURSIVE WordRunEnd(_, _)
WordRunEnd(s, i) == IF i < Len(s) /\ s[i + 1] \in WordChars THEN WordRunEnd(s, i + 1) ELSE i

\* [^\s]+\.\w+ matched from position p: the positions its \. can take
DotPositions(s, p) ==
    IF p > Len(s) \/ s[p] \in Whitespace THEN {}
    ELSE {d \in (p + 1)..(RunEnd(s, p) - 1) : s[d] = "." /\ s[d + 1] \in WordChars}
\* the end of the greedy match of [^\s]+\.\w+ from p (DotPositions(s, p) not empty)
PathTailEnd(s, p) == WordRunEnd(s, MaxOf(DotPositions(s, p)) + 1)

\* r'["\']([^"\']+\.(txt|py|...))["\']' matched with its opening quote at i
ClosingQuote(s, i) ==
    IF \E q \in (i + 1)..Len(s) : s[q] \in Quotes
    THEN MinOf({q \in (i + 1)..Len(s) : s[q] \in Quotes})
    ELSE 0
EndsWithExtension(content) ==
    \E e \in Extensions :
        /\ Len(content) >= Len(e) + 2
        /\ SubSeq(content, Len(content) - Len(e), Len(content)) = <<".">> \o e
QuotedPathAt(s, i) ==
    /\ s[i] \in Quotes
    /\ ClosingQuote(s, i) # 0
    /\ EndsWithExtension(SubSeq(s, i + 1, ClosingQuote(s, i) - 1))
\* r'\b([a-zA-Z]:[\\/][^\s]+\.\w+)' matched at i
DrivePathAt(s, i) ==
    /\ s[i] \in Letters
    /\ (i = 1 \/ s[i - 1] \notin WordChars)
    /\ i + 2 <= Len(s)
    /\ s[i + 1] = ":"
    /\ s[i + 2] \in {"\\", "/"}
    /\ DotPositions(s, i + 3) # {}
\* r'\b([./][^\s]+\.\w+)' matched at i: \b before a '.' or '/' needs a \w character before it
DotPathAt(s, i) ==
    /\ s[i] \in {".", "/"}
    /\ i > 1
    /\ s[i - 1] \in WordChars
    /\ DotPositions(s, i + 1) # {}

\* re.search over the three patterns in order; match.group(1) of the first that matches
_extract_file_path(msg) ==
    LET P1 == {i \in 1..Len(msg) : QuotedPathAt(msg, i)}
        P2 == {i \in 1..Len(msg) : DrivePathAt(msg, i)}
        P3 == {i \in 1..Len(msg) : DotPathAt(msg, i)}
    IN  IF P1 # {} THEN Txt(SubSeq(msg, MinOf(P1) + 1, ClosingQuote(msg, MinOf(P1)) - 1))
        ELSE IF P2 # {} THEN Txt(SubSeq(msg, MinOf(P2), PathTailEnd(msg, MinOf(P2) + 3)))
        ELSE IF P3 # {} THEN Txt(SubSeq(msg, MinOf(P3), PathTailEnd(msg, MinOf(P3) + 1)))
        ELSE NoneV

\* the dict {"intent": kind, "confidence": conf, "parameters": params}
IntentDict(kind, conf, params) ==
    Obj([intent |-> Str(kind), confidence |-> Num(conf), parameters |-> params])
ConversationalDefault == IntentDict("conversational", ConfDefault, EmptyDict)

\* _rule_based_extraction with the play rule tested after the search and run rules
_rule_based_extraction_play_late(msg) ==
    LET message_lower == Lower(msg) IN
    IF AnyIn(OpenKeywords, message_lower) /\ Truthy(_extract_app_name(msg))
    THEN IntentDict("open_app", ConfOpenApp, Obj([app_name |-> _extract_app_name(msg)]))
    ELSE IF AnyIn(SearchKeywords, message_lower)
    THEN IntentDict("web_search",
                    IF Contains(message_lower, W.youtube) THEN ConfSearchYoutube ELSE ConfSearch,
                    Obj([query |-> _extract_search_query(msg)]))
    ELSE IF AnyIn(RunKeywords, message_lower) /\ Truthy(_extract_command(msg))
    THEN IntentDict("run_command", ConfRunCommand, Obj([command |-> _extract_command(msg)]))
    ELSE IF Contains(message_lower, W.play)
    THEN IntentDict("web_search", ConfPlay, Obj([query |-> _extract_search_query(msg)]))
    ELSE ConversationalDefault

\* _rule_based_extraction with the open, run and read rules returning on their
\* keyword alone, whatever their extractor finds
_rule_based_extraction_no_fall_through(msg) ==
    LET message_lower == Lower(msg) IN
    IF AnyIn(OpenKeywords, message_lower)
    THEN IntentDict("open_app", ConfOpenApp, Obj([app_name |-> _extract_app_name(msg)]))
    ELSE IF Contains(message_lower, W.play)
    THEN IntentDict("web_search", ConfPlay, Obj([query |-> _extract_search_query(msg)]))
    ELSE IF AnyIn(SearchKeywords, message_lower)
    THEN IntentDict("web_search",
                    IF Contains(message_lower, W.youtube) THEN ConfSearchYoutube ELSE ConfSearch,
                    Obj([query |-> _extract_search_query(msg)]))
    ELSE IF AnyIn(RunKeywords, message_lower)
    THEN IntentDict("run_command", ConfRunCommand, Obj([command |-> _extract_command(msg)]))
    ELSE IF AnyIn(ReadKeywords, message_lower)
    THEN IntentDict("read_file", ConfReadFile, Obj([file_path |-> _extract_file_path(msg)]))
    ELSE ConversationalDefault

_rule_based_extraction(msg) ==
    LET message_lower == Lower(msg) IN
    IF AnyIn(OpenKeywords, message_lower) /\ Truthy(_extract_app_name(msg))
    THEN IntentDict("open_app", ConfOpenApp, Obj([app_name |-> _extract_app_name(msg)]))
    ELSE IF Contains(message_lower, W.play)
    THEN IntentDict("web_search", ConfPlay, Obj([query |-> _extract_search_query(msg)]))
    ELSE IF AnyIn(SearchKeywords, message_lower)
    THEN IntentDict("web_search",
                    IF Contains(message_lower, W.youtube) THEN ConfSearchYoutube ELSE ConfSearch,
                    Obj([query |-> _extract_search_query(msg)]))
    ELSE IF AnyIn(RunKeywords, message_lower) /\ Truthy(_extract_command(msg))
    THEN IntentDict("run_command", ConfRunCommand, Obj([command |-> _extract_command(msg)]))
    ELSE IF AnyIn(ReadKeywords, message_lower) /\ Truthy(_extract_file_path(msg))
    THEN IntentDict("read_file", ConfReadFile, Obj([file_path |-> _extract_file_path(msg)]))
    ELSE ConversationalDefault

----------------------------------------------------------------------------
(* The completion capability's text, and json.loads *)

(* A completion's text is a sequence of tokens [t, v]: the JSON punctuation   *)
(* "{", "}", "[", "]", ",", a member's name and colon ("key", v the name), a   *)
(* scalar literal ("lit", v the value it denotes) and "prose" (any other text, *)
(* which holds no bracket and is no JSON).                                     *)
Tok(kind) == [t |-> kind, v |-> ""]
KeyTok(name) == [t |-> "key", v |-> name]
LitTok(value) == [t |-> "lit", v |-> value]
Prose == Tok("prose")

\* text.find(ch), 1-based, 0 when absent
FindTok(text, kind) ==
    IF \E i \in 1..Len(text) : text[i].t = kind
    THEN MinOf({i \in 1..Len(text) : text[i].t = kind})
    ELSE 0
\* text.rfind(ch), 1-based, 0 when absent
RFindTok(text, kind) ==
    IF \E i \in 1..Len(text) : text[i].t = kind
    THEN MaxOf({i \in 1..Len(text) : text[i].t = kind})
    ELSE 0

ParseFail == [ok |-> FALSE, val |-> NoneV, next |-> 0]
ParseOk(val, next) == [ok |-> TRUE, val |-> val, next |-> next]
TokAt(text, i) == IF i >= 1 /\ i <= Len(text) THEN text[i].t ELSE "eof"

\* json's recursive descent: the value that starts at token i, and where it ends
RECURSIVE ParseValue(_, _), ParseMembers(_, _, _), ParseElements(_, _, _)
ParseValue(text, i) ==
    CASE TokAt(text, i) = "lit" -> ParseOk(text[i].v, i + 1)
      [] TokAt(text, i) = "{" ->
            IF TokAt(text, i + 1) = "}" THEN ParseOk(EmptyDict, i + 2)
            ELSE ParseMembers(text, i + 1, <<>>)
      [] TokAt(text, i) = "[" ->
            IF TokAt(text, i + 1) = "]" THEN ParseOk(Arr(<<>>), i + 2)
            ELSE ParseElements(text, i + 1, <<>>)
      [] OTHER -> ParseFail
ParseMembers(text, i, acc) ==
    IF TokAt(text, i) # "key" THEN ParseFail
    ELSE LET r == ParseValue(text, i + 1) IN
         IF ~r.ok THEN ParseFail
         ELSE LET acc2 == (text[i].v :> r.val) @@ acc IN   \* a repeated name: the last one stays
              IF TokAt(text, r.next) = "}" THEN ParseOk(Obj(acc2), r.next + 1)
              ELSE IF TokAt(text, r.next) = "," THEN ParseMembers(text, r.next + 1, acc2)
              ELSE ParseFail
ParseElements(text, i, acc) ==
    LET r == ParseValue(text, i) IN
    IF ~r.ok THEN ParseFail
    ELSE IF TokAt(text, r.next) = "]" THEN ParseOk(Arr(Append(acc, r.val)), r.next + 1)
    ELSE IF TokAt(text, r.next) = "," THEN ParseElements(text, r.next + 1, Append(acc, r.val))
    ELSE ParseFail

\* json.loads(text): ok is FALSE when it raises (no value, or text after the value)
json_loads(text) ==
    LET r == ParseValue(text, 1) IN
    IF r.ok /\ r.next = Len(text) + 1 THEN r ELSE ParseFail

----------------------------------------------------------------------------
(* Brain.generate_response (core/brain.py): one entry of brain_log per call *)

BrainCall(prompt, context, system_instruction) ==
    [prompt |-> prompt, context |-> context, system_instruction |-> system_instruction]

----------------------------------------------------------------------------
(* IntentExtractor._llm_assisted_extraction and extract_intent *)

IntentPrompt(msg) ==
    <<Str("Analyze this user message and extract the intent and parameters. User message: "),
      Txt(msg),
      Str("Respond with ONLY valid JSON, no other text:")>>

\* variant: json.loads is not inside a try block, so its exception leaves the method
_llm_assisted_extraction_no_except(msg, response) ==
    LET json_start == FindTok(response, "{")
        json_end == RFindTok(response, "}")
        parsed == json_loads(SubSeq(response, json_start, json_end))
    IN  IF json_start >= 1 /\ json_end >= json_start
        THEN IF parsed.ok THEN parsed.val ELSE [t |-> "raise", v |-> "JSONDecodeError"]
        ELSE ConversationalDefault

\* the dict parsed from the completion `response`, or the fallback
_llm_assisted_extraction(msg, response) ==
    LET json_start == FindTok(response, "{")
        json_end == RFindTok(response, "}")
        parsed == json_loads(SubSeq(response, json_start, json_end))
    IN  IF json_start >= 1 /\ json_end >= json_start /\ parsed.ok THEN parsed.val
        ELSE ConversationalDefault

\* extract_intent with the threshold test written against 0.9
extract_intent_threshold_90(msg, response) ==
    LET rule == _rule_based_extraction(msg) IN
    IF rule.v.confidence.v < ConfOpenApp
    THEN [intent |-> _llm_assisted_extraction(msg, response),
          calls |-> <<BrainCall(IntentPrompt(msg), NoneV, NoneV)>>]
    ELSE [intent |-> rule, calls |-> <<>>]

\* extract_intent's result and the completion calls it makes, `response` being what
\* the completion capability answers if it is called
extract_intent(msg, response) ==
    LET rule == _rule_based_extraction(msg) IN
    IF rule.v.confidence.v < ConfThreshold
    THEN [intent |-> _llm_assisted_extraction(msg, response),
          calls |-> <<BrainCall(IntentPrompt(msg), NoneV, NoneV)>>]
    ELSE [intent |-> rule, calls |-> <<>>]

----------------------------------------------------------------------------
(* Inputs *)

\* the concatenation of a sequence of character sequences
RECURSIVE Concat(_)
Concat(ss) == IF ss = <<>> THEN <<>> ELSE Head(ss) \o Concat(Tail(ss))
\* every concatenation of at most n pieces of `chunks`
Phrases(chunks, n) == {Concat(ss) : ss \in UNION {[1..k -> chunks] : k \in 0..n}}

\* the longest utterance of the intent specification, in pieces of IntentChunks
MaxChunks == 3
IntentChunks ==
    {<<" ">>, W.open, W.start, W.play, <<"P","L","A","Y">>, W.the, W.code, W.search,
     W.youtube, W.run, W.show, <<"a",".","b",".","c">>}

LB == Tok("{")
RB == Tok("}")
LS == Tok("[")
RS == Tok("]")
Comma == Tok(",")
IntentJson(kind) ==
    <<LB, KeyTok("intent"), LitTok(Str(kind)), Comma, KeyTok("confidence"), LitTok(Num(95)), Comma,
      KeyTok("parameters"), LB, KeyTok("app_name"), LitTok(Str("vscode")), RB, RB>>
\* completions for the intent prompt: prose only, an intent object bare and inside
\* prose, an object without the intent keys, and unbalanced or reversed braces
IntentResponses ==
    {<<Prose>>, IntentJson("open_app"), <<Prose>> \o IntentJson("multi_step") \o <<Prose>>,
     <<LB, RB>>, <<LB>>, <<RB, Prose, LB>>, <<LB, KeyTok("intent"), RB>>}

IdlePipe ==
    /\ intent = NoneV
    /\ plan = NoneV
    /\ brain_log = <<>>
    /\ results = <<>>
    /\ skills_used = <<>>
    /\ skill_runs = <<>>
    /\ outcome = NoneV
IdleMem ==
    /\ user_preferences = {}
    /\ conversation_history = <<>>
    /\ memory_collection = <<>>
    /\ now = 0
    /\ mem_log = <<>>
IdleTurn ==
    /\ mode = "none"
    /\ turns = 0
    /\ sent = <<>>
    /\ reply = NoneV
    /\ turn_context = NoneV
    /\ brain_history = <<>>
    /\ user_facts = {}
    /\ stages = <<>>

----------------------------------------------------------------------------
(* SpecIntent: extract_intent applied to every utterance of Phrases *)

InitIntent ==
    /\ pc = "extract_intent"
    /\ message \in Phrases(IntentChunks, MaxChunks)
    /\ IdlePipe
    /\ IdleMem
    /\ IdleTurn

\* IntentExtractor.extract_intent(message)
ExtractIntent ==
    /\ pc = "extract_intent"
    /\ \E response \in IntentResponses :
        LET r == extract_intent(message, response) IN
        /\ intent' = r.intent
        /\ outcome' = r.intent
        /\ brain_log' = brain_log \o r.calls
    /\ pc' = "intent_done"
    /\ UNCHANGED <<message, plan, results, skills_used, skill_runs, memVars>>
    /\ UNCHANGED turnVars

NextIntent == ExtractIntent
SpecIntent == InitIntent /\ [][NextIntent]_vars

IntentKind(i) == IF IsDict(i) /\ Has(i, "intent") THEN i.v["intent"].v ELSE "(none)"
RuleConfidence(msg) == _rule_based_extraction(msg).v.confidence.v
\* nothing but whitespace follows the first occurrence of each of open, launch, start
\* that occurs in the utterance
NoAppNameText(msg) ==
    \A i \in 1..Len(OpenKeywords) :
        Contains(Lower(msg), OpenKeywords[i]) => Strip(AfterFirst(Lower(msg), OpenKeywords[i])) = <<>>

C3_RuleOnlyNoCompletion ==
    pc = "intent_done" =>
        /\ RuleConfidence(message) >= ConfThreshold =>
              /\ intent = _rule_based_extraction(message)
              /\ brain_log = <<>>
        /\ RuleConfidence(message) < ConfThreshold =>
              /\ Len(brain_log) = 1
              /\ brain_log[1].prompt = IntentPrompt(message)

\* the lowest rule confidence above the threshold (read_file, 0.8), returned with no call
C3_Witness ==
    /\ pc = "intent_done"
    /\ RuleConfidence(message) = ConfReadFile
    /\ IntentKind(intent) = "read_file"
    /\ brain_log = <<>>

----------------------------------------------------------------------------
(* Planner (core/planner.py) *)

\* an exception leaving a function
Raise(name) == [t |-> "raise", v |-> name]
IsRaise(x) == x.t = "raise"
\* an f-string: the literal pieces and the values formatted into it, in order
FStr(pieces) == [t |-> "fstr", v |-> pieces]

\* SkillRegistry.list_skills(): the names of the skills of the skills directory
available_skills ==
    <<Str("conversational"), Str("open_app"), Str("read_file"), Str("run_command"),
      Str("web_search"), Str("write_file")>>

ComplexIndicators == <<W.and, W.then, W.after, W.also, W.plus, W.comma>>
FileKeywords == <<W.create, W.write, W.make, W.file, W.java, W.python, W.code, W.program>>

_is_complex_request(request) == AnyIn(ComplexIndicators, Lower(request))

\* _map_intent_to_skill falling back to the intent kind itself
_map_intent_to_skill_identity(kind) == kind

_map_intent_to_skill(kind) ==
    IF kind \in {Str("open_app"), Str("web_search"), Str("run_command"), Str("read_file"),
                 Str("conversational")}
    THEN kind
    ELSE Str("conversational")

\* the one-step plan of plan and of _llm_plan's fallback; intent["parameters"] raises
\* KeyError when the intent has no such key
SimplePlan(intent_) ==
    IF ~Has(intent_, "parameters") THEN Raise("KeyError")
    ELSE Arr(<<Obj([step |-> Num(1),
                    skill |-> _map_intent_to_skill(intent_.v["intent"]),
                    parameters |-> intent_.v["parameters"],
                    description |-> FStr(<<Str("Execute "), intent_.v["intent"]>>)])>>)

PlanPrompt(user_request, intent_) ==
    <<Str("Break down this user request into a step-by-step plan. User Request: "),
      Txt(user_request),
      Str("Intent: "), intent_.v["intent"],
      Str("Available Skills: "), Arr(available_skills),
      IF AnyIn(FileKeywords, Lower(user_request))
      THEN Str("CRITICAL: If the request involves creating or writing a file, you MUST use the 'write_file' skill")
      ELSE Str(""),
      Str("Respond with ONLY valid JSON array, no other text:")>>

\* the list parsed from the completion `response`, or the one-step fallback
_llm_plan(user_request, intent_, response) ==
    LET json_start == FindTok(response, "[")
        json_end == RFindTok(response, "]")
        parsed == json_loads(SubSeq(response, json_start, json_end))
    IN  [ret |-> IF json_start >= 1 /\ json_end >= json_start /\ parsed.ok /\ parsed.val.t = "arr"
                 THEN parsed.val
                 ELSE SimplePlan(intent_),
         calls |-> <<BrainCall(PlanPrompt(user_request, intent_), NoneV, NoneV)>>]

\* Planner.plan's result (a list, or the exception it raises) and the completion calls
\* it makes, `response` being what the completion capability answers if it is called
plan_(user_request, intent_, response) ==
    IF ~Has(intent_, "intent") THEN [ret |-> Raise("KeyError"), calls |-> <<>>]
    ELSE IF intent_.v["intent"] = Str("multi_step") \/ _is_complex_request(user_request)
    THEN _llm_plan(user_request, intent_, response)
    ELSE [ret |-> SimplePlan(intent_), calls |-> <<>>]

----------------------------------------------------------------------------
(* SpecPlan: Planner.plan applied to requests, intents and completions *)

\* the longest request of the planner specification, in pieces of PlanChunks
MaxPlanChunks == 2
PlanChunks == {<<"x", " ">>, W.and, <<"A","N","D">>, W.comma, W.file}
\* the intents handed to plan: one of each kind, a kind outside the mapping, and two
\* dicts a completion can produce that lack a key
PlanIntents ==
    {IntentDict("open_app", ConfOpenApp, Obj([app_name |-> Txt(W.vscode)])),
     IntentDict("web_search", ConfSearch, Obj([query |-> Txt(W.python)])),
     IntentDict("run_command", ConfRunCommand, Obj([command |-> Txt(<<"l","s">>)])),
     IntentDict("read_file", ConfReadFile, Obj([file_path |-> Txt(<<".","b",".","c">>)])),
     IntentDict("conversational", ConfDefault, EmptyDict),
     IntentDict("multi_step", 95, EmptyDict),
     IntentDict("write_file", 95, Obj([file_path |-> Str("a.txt")])),
     EmptyDict,
     Obj([intent |-> Str("open_app")])}
\* the intents that have a kind and parameters
WellFormed(i) == IsDict(i) /\ Has(i, "intent") /\ Has(i, "parameters")

StepJson(n, skill, description) ==
    <<LB, KeyTok("step"), LitTok(Num(n)), Comma, KeyTok("skill"), LitTok(Str(skill)), Comma,
      KeyTok("parameters"), LB, RB, Comma, KeyTok("description"), LitTok(Str(description)), RB>>
\* the longest completion of the planner specification, in pieces of PlanRespChunks
MaxPlanRespChunks == 2
PlanRespChunks ==
    {<<LS>>, <<RS>>, <<Prose>>, StepJson(1, "open_app", "Open VS Code"),
     <<LS>> \o StepJson(1, "open_app", "Open VS Code") \o <<Comma>>
            \o StepJson(2, "write_file", "Create file") \o <<RS>>}

InitPlan ==
    /\ pc = "plan"
    /\ message \in Phrases(PlanChunks, MaxPlanChunks)
    /\ intent \in PlanIntents
    /\ plan = NoneV
    /\ brain_log = <<>>
    /\ results = <<>>
    /\ skills_used = <<>>
    /\ skill_runs = <<>>
    /\ outcome = NoneV
    /\ IdleMem
    /\ IdleTurn

\* Planner.plan(message, intent)
Plan ==
    /\ pc = "plan"
    /\ \E response \in Phrases(PlanRespChunks, MaxPlanRespChunks) :
        LET r == plan_(message, intent, response) IN
        /\ plan' = r.ret
        /\ outcome' = r.ret
        /\ brain_log' = brain_log \o r.calls
    /\ pc' = "plan_done"
    /\ UNCHANGED <<message, intent, results, skills_used, skill_runs, memVars>>
    /\ UNCHANGED turnVars

NextPlan == Plan
SpecPlan == InitPlan /\ [][NextPlan]_vars

(* C1, as claimed: plan returns a non-empty list of steps for every utterance,    *)
(* every intent (a dict with a kind and parameters) and every completion output.  *)
C1_PlanNeverEmpty ==
    (pc = "plan_done" /\ WellFormed(intent)) => (plan.t = "arr" /\ Len(plan.v) >= 1)

(* C4: for an intent whose kind is not multi_step and an utterance that holds     *)
(* none of the compound indicators (in any letter case), plan returns exactly one *)
(* step, numbered 1, whose skill is the mapping of the intent kind and whose      *)
(* parameters are the intent's, and makes no completion call.                     *)
IntentToSkill ==
    [k \in {"open_app", "web_search", "run_command", "read_file", "conversational"} |-> k]
C4_SimplePlanOneStep ==
    (/\ pc = "plan_done"
     /\ WellFormed(intent)
     /\ IntentKind(intent) # "multi_step"
     /\ \A i \in 1..Len(ComplexIndicators) : ~Contains(Lower(message), ComplexIndicators[i]))
    => /\ plan.t = "arr"
       /\ Len(plan.v) = 1
       /\ plan.v[1].v["step"] = Num(1)
       /\ plan.v[1].v["skill"] =
             Str(IF IntentKind(intent) \in DOMAIN IntentToSkill
                 THEN IntentToSkill[IntentKind(intent)] ELSE "conversational")
       /\ plan.v[1].v["parameters"] = intent.v["parameters"]
       /\ brain_log = <<>>

\* a read_file intent on a request with a file keyword and no indicator
C4_Witness ==
    /\ pc = "plan_done"
    /\ IntentKind(intent) = "read_file"
    /\ Contains(message, W.file)
    /\ ~_is_complex_request(message)
    /\ Len(plan.v) = 1
    /\ plan.v[1].v["skill"] = Str("read_file")

----------------------------------------------------------------------------
(* SkillRegistry (core/skill_registry.py) and execute_plan (routes/ask.py) *)

\* str(x)
PyStr(x) == [t |-> "pystr", v |-> x]

\* SkillRegistry.skills: the names the loaded skills are registered under
skills == {available_skills[i] : i \in 1..Len(available_skills)}
\* variant: an unknown name falls back to the conversational skill
get_skill_fallback(skill_name) ==
    IF skill_name \in skills THEN skill_name ELSE Str("conversational")
\* SkillRegistry.get_skill: the skill registered under skill_name, or NoneV
get_skill(skill_name) == IF skill_name \in skills THEN skill_name ELSE NoneV

\* variant: no try/except around skill.run
execute_skill_no_try(skill_name, parameters, run) ==
    IF skill_name \notin skills
    THEN [ret |-> Obj([success |-> Bool(FALSE),
                       error |-> FStr(<<Str("Skill '"), skill_name, Str("' not found")>>)]),
          ran |-> FALSE]
    ELSE [ret |-> run, ran |-> TRUE]
\* a skill's run raising Exception(msg) is Raise(msg); execute_skill returns
\* [ret: the result dict, ran: whether skill.run was called], `run` being what the
\* skill's run returns or raises if it is called
execute_skill(skill_name, parameters, run) ==
    IF get_skill(skill_name) = NoneV
    THEN [ret |-> Obj([success |-> Bool(FALSE),
                       error |-> FStr(<<Str("Skill '"), skill_name, Str("' not found")>>)]),
          ran |-> FALSE]
    ELSE [ret |-> IF IsRaise(run)
                  THEN Obj([success |-> Bool(FALSE), error |-> Str(run.v)])
                  ELSE run,
          ran |-> TRUE]

\* one entry of execute_plan's list `results`
ResultEntry(step, r) ==
    [step |-> Get(step, "step", Num(0)),
     description |-> Get(step, "description", Str("")),
     result |-> r]

RECURSIVE ResultsText(_)
ResultsText(rs) ==
    IF rs = <<>> THEN <<>>
    ELSE <<Str("Step "), Head(rs).step, Str(": "), Head(rs).description,
           Str("Result: "), PyStr(Head(rs).result)>> \o ResultsText(Tail(rs))
SynthesisPrompt(user_message, rs) ==
    <<Str("The user requested: "), Txt(user_message), Str("I executed the following steps:")>>
    \o ResultsText(rs)
    \o <<Str("Provide a clear, concise summary of what was accomplished, combining all the results into a natural response.")>>

\* variant: content is looked up before formatted
Unwrap_content_first(result) ==
    IF Has(result, "content") THEN result.v["content"]
    ELSE IF Has(result, "formatted") THEN result.v["formatted"]
    ELSE IF Has(result, "message") THEN result.v["message"]
    ELSE IF Has(result, "stdout") THEN result.v["stdout"]
    ELSE PyStr(result)
\* variant: stdout is looked up before message
Unwrap_stdout_first(result) ==
    IF Has(result, "formatted") THEN result.v["formatted"]
    ELSE IF Has(result, "content") THEN result.v["content"]
    ELSE IF Has(result, "stdout") THEN result.v["stdout"]
    ELSE IF Has(result, "message") THEN result.v["message"]
    ELSE PyStr(result)
\* the first of formatted, content, message, stdout the result holds, else str(result)
Unwrap(result) ==
    IF Has(result, "formatted") THEN result.v["formatted"]
    ELSE IF Has(result, "content") THEN result.v["content"]
    ELSE IF Has(result, "message") THEN result.v["message"]
    ELSE IF Has(result, "stdout") THEN result.v["stdout"]
    ELSE PyStr(result)

\* variant: the first result is unwrapped whatever the number of results
CombineResults_any_length(rs, user_message, response) ==
    IF Len(rs) >= 1 /\ Truthy(Get(rs[1].result, "success", NoneV))
    THEN [ret |-> Unwrap(rs[1].result), calls |-> <<>>]
    ELSE [ret |-> response,
          calls |-> <<BrainCall(SynthesisPrompt(user_message, rs), NoneV, NoneV)>>]
\* execute_plan after its loop: what it returns and the completion calls it makes,
\* `response` being what the completion capability answers if it is called
CombineResults(rs, user_message, response) ==
    IF Len(rs) = 1 /\ Truthy(Get(rs[1].result, "success", NoneV))
    THEN [ret |-> Unwrap(rs[1].result), calls |-> <<>>]
    ELSE [ret |-> response,
          calls |-> <<BrainCall(SynthesisPrompt(user_message, rs), NoneV, NoneV)>>]

----------------------------------------------------------------------------
(* SpecExec: execute_plan applied to plans, skill outcomes and completions *)

\* the longest plan of the execution specification
MaxSteps == 2
\* plan elements: two full steps, a step naming no registered skill, an empty step
\* and a JSON number, which _llm_plan can return inside its list
StepPool ==
    {Obj([step |-> Num(1), skill |-> Str("open_app"),
          parameters |-> Obj([app_name |-> Str("vscode")]), description |-> Str("Open VS Code")]),
     Obj([step |-> Num(2), skill |-> Str("write_file"),
          parameters |-> Obj([file_path |-> Str("a.txt")]), description |-> Str("Create file")]),
     Obj([skill |-> Str("nonexistent"), description |-> Str("Fly")]),
     EmptyDict,
     Num(7)}
\* what a skill's run can do: return one of these dicts, or raise
SkillOutcomes ==
    {Obj([success |-> Bool(TRUE), message |-> Str("Opened vscode")]),
     Obj([success |-> Bool(TRUE), message |-> Str("Created a.txt"), stdout |-> Str("ok")]),
     Obj([success |-> Bool(TRUE), content |-> Str("file text"), message |-> Str("Read a.txt")]),
     Obj([success |-> Bool(TRUE), formatted |-> Str("1. title"), content |-> Str("raw")]),
     Obj([success |-> Bool(TRUE), stdout |-> Str("out"), returncode |-> Num(0)]),
     Obj([success |-> Bool(TRUE), url |-> Str("https://www.youtube.com")]),
     Obj([success |-> Bool(FALSE), error |-> Str("app_name parameter required")]),
     Obj([message |-> Str("no success key")]),
     Raise("boom")}
\* what Brain.generate_response can return
BrainResponses == {Str("All done."), Str("Error generating response: timeout")}

InitExec ==
    /\ pc = "execute_plan"
    /\ message = W.open \o <<" ">> \o W.vscode
    /\ intent = NoneV
    /\ plan \in {Arr(p) : p \in UNION {[1..n -> StepPool] : n \in 0..MaxSteps}}
    /\ brain_log = <<>>
    /\ results = <<>>
    /\ skills_used = <<>>
    /\ skill_runs = <<>>
    /\ outcome = NoneV
    /\ IdleMem
    /\ IdleTurn

\* variant: the loop walks the plan from its last step to its first
ExecStep_reversed ==
    /\ pc = "execute_plan"
    /\ Len(results) < Len(plan.v)
    /\ LET step == plan.v[Len(plan.v) - Len(results)] IN
       IF ~IsDict(step)
       THEN /\ outcome' = Raise("AttributeError")
            /\ pc' = "exec_done"
            /\ UNCHANGED <<results, skills_used, skill_runs>>
       ELSE \E run \in SkillOutcomes :
            LET skill_name == Get(step, "skill", Str("conversational"))
                parameters == Get(step, "parameters", EmptyDict)
                r == execute_skill(skill_name, parameters, run)
            IN  /\ results' = Append(results, ResultEntry(step, r.ret))
                /\ skills_used' = Append(skills_used, skill_name)
                /\ skill_runs' =
                      IF r.ran
                      THEN Append(skill_runs, [at |-> Len(results) + 1, name |-> skill_name,
                                               parameters |-> parameters, outcome |-> run])
                      ELSE skill_runs
                /\ UNCHANGED <<outcome, pc>>
    /\ UNCHANGED <<message, intent, plan, brain_log, memVars>>
    /\ UNCHANGED turnVars

\* one round of execute_plan's loop; step.get raises AttributeError on a non-dict
ExecStep ==
    /\ pc = "execute_plan"
    /\ Len(results) < Len(plan.v)
    /\ LET step == plan.v[Len(results) + 1] IN
       IF ~IsDict(step)
       THEN /\ outcome' = Raise("AttributeError")
            /\ pc' = "exec_done"
            /\ UNCHANGED <<results, skills_used, skill_runs>>
       ELSE \E run \in SkillOutcomes :
            LET skill_name == Get(step, "skill", Str("conversational"))
                parameters == Get(step, "parameters", EmptyDict)
                r == execute_skill(skill_name, parameters, run)
            IN  /\ results' = Append(results, ResultEntry(step, r.ret))
                /\ skills_used' = Append(skills_used, skill_name)
                /\ skill_runs' =
                      IF r.ran
                      THEN Append(skill_runs, [at |-> Len(results) + 1, name |-> skill_name,
                                               parameters |-> parameters, outcome |-> run])
                      ELSE skill_runs
                /\ UNCHANGED <<outcome, pc>>
    /\ UNCHANGED <<message, intent, plan, brain_log, memVars>>
    /\ UNCHANGED turnVars

\* execute_plan after its loop
ExecRespond ==
    /\ pc = "execute_plan"
    /\ Len(results) = Len(plan.v)
    /\ \E response \in BrainResponses :
        LET r == CombineResults(results, message, response) IN
        /\ outcome' = r.ret
        /\ brain_log' = brain_log \o r.calls
    /\ pc' = "exec_done"
    /\ UNCHANGED <<message, intent, plan, results, skills_used, skill_runs, memVars>>
    /\ UNCHANGED turnVars

NextExec == ExecStep \/ ExecRespond
SpecExec == InitExec /\ [][NextExec]_vars

----------------------------------------------------------------------------
(* Claims about execute_plan and execute_skill, checked under SpecExec *)

StepsAreDicts == \A i \in 1..Len(plan.v) : IsDict(plan.v[i])
SkillOf(step) == Get(step, "skill", Str("conversational"))
DescriptionOf(step) == Get(step, "description", Str(""))
SignalsSuccess(rs) == Len(rs) = 1 /\ Truthy(Get(rs[1].result, "success", NoneV))
\* a single executed step whose result has success true and a message, and neither
\* formatted nor content
SingleMessageResult ==
    /\ pc = "exec_done"
    /\ Len(plan.v) = 1
    /\ Len(results) = 1
    /\ Get(results[1].result, "success", NoneV) = Bool(TRUE)
    /\ Has(results[1].result, "message")
    /\ ~Has(results[1].result, "formatted")
    /\ ~Has(results[1].result, "content")

\* C7: execute_plan on a plan of one step whose result has success true and a
\* message m, and neither formatted nor content, returns exactly m and makes no
\* call to the completion capability.
C7_SingleStepReturnsMessage ==
    SingleMessageResult =>
        /\ outcome = results[1].result.v["message"]
        /\ brain_log = <<>>
C7_Witness ==
    /\ SingleMessageResult
    /\ Has(results[1].result, "stdout")
    /\ outcome = Str("Created a.txt")

\* the plans of C8: two or more steps, or one step whose result does not signal success
NeedsSynthesis ==
    /\ pc = "exec_done"
    /\ StepsAreDicts
    /\ \/ Len(plan.v) >= 2
       \/ Len(plan.v) = 1 /\ ~SignalsSuccess(results)

\* C8: execute_plan on a plan of two or more steps, or of one step whose result
\* does not signal success, makes exactly one call to the completion capability,
\* after all its steps have run, with a prompt that contains the description of
\* every step, and returns what that call answers.
C8_OneSynthesisCall ==
    /\ pc = "execute_plan" => brain_log = <<>>
    /\ NeedsSynthesis =>
        /\ Len(results) = Len(plan.v)
        /\ Len(brain_log) = 1
        /\ \A i \in 1..Len(plan.v) :
              \E j \in 1..Len(brain_log[1].prompt) :
                  brain_log[1].prompt[j] = DescriptionOf(plan.v[i])
        /\ outcome \in BrainResponses
C8_Witness ==
    /\ NeedsSynthesis
    /\ Len(plan.v) = 2
    /\ SignalsSuccess(<<results[1]>>)
    /\ DescriptionOf(plan.v[1]) # DescriptionOf(plan.v[2])
    /\ Len(brain_log) = 1

\* what execute_skill returns for a name that is not registered
NotFound(skill_name) ==
    Obj([success |-> Bool(FALSE),
         error |-> FStr(<<Str("Skill '"), skill_name, Str("' not found")>>)])

\* C9: execute_skill with a name that is not registered returns a result with
\* success false and an error naming the skill; it does not raise, it runs no
\* skill, and execute_plan goes on with the next step.
C9_UnknownSkillNotFound ==
    /\ \A i \in 1..Len(results) :
          SkillOf(plan.v[i]) \notin skills =>
              /\ results[i].result = NotFound(SkillOf(plan.v[i]))
              /\ \A k \in 1..Len(skill_runs) : skill_runs[k].at # i
    /\ \A k \in 1..Len(skill_runs) : skill_runs[k].name \in skills
    /\ (pc = "exec_done" /\ StepsAreDicts) =>
          /\ ~IsRaise(outcome)
          /\ Len(results) = Len(plan.v)
C9_Witness ==
    /\ pc = "exec_done"
    /\ Len(plan.v) = 2
    /\ Len(results) = 2
    /\ SkillOf(plan.v[1]) = Str("nonexistent")
    /\ SkillOf(plan.v[2]) \in skills
    /\ Len(skill_runs) = 1

\* the runs of a skill that raised
RaisedRuns == {k \in 1..Len(skill_runs) : IsRaise(skill_runs[k].outcome)}

\* C10: when a skill's run raises, execute_skill returns a result with success
\* false and the exception's message as error; the exception does not propagate,
\* and execute_plan runs its remaining steps and returns.
C10_SkillExceptionContained ==
    /\ \A k \in RaisedRuns :
          results[skill_runs[k].at].result =
              Obj([success |-> Bool(FALSE), error |-> Str(skill_runs[k].outcome.v)])
    /\ \A i \in 1..Len(results) : IsDict(results[i].result)
    /\ IsRaise(outcome) => ~StepsAreDicts
    /\ (pc = "exec_done" /\ StepsAreDicts) => Len(results) = Len(plan.v)
C10_Witness ==
    /\ pc = "exec_done"
    /\ Len(plan.v) = 2
    /\ \E k \in RaisedRuns : skill_runs[k].at = 1
    /\ Len(skill_runs) = 2
    /\ Len(brain_log) = 1

\* the runs made for the step at position i of the plan
RunsAt(i) == {k \in 1..Len(skill_runs) : skill_runs[k].at = i}

\* C11: execute_plan takes the steps in the order the plan lists them, whatever
\* their step numbers: the k-th entry of results and of skills_used is that of the
\* k-th step, the registered skill of a step is run exactly once, with the step's
\* parameters, and in plan order, a failed result stops nothing, and at the end
\* results holds one entry per step.
C11_StepsInPlanOrder ==
    /\ Len(results) <= Len(plan.v)
    /\ Len(skills_used) = Len(results)
    /\ \A i \in 1..Len(results) :
          /\ IsDict(plan.v[i])
          /\ results[i].step = Get(plan.v[i], "step", Num(0))
          /\ results[i].description = DescriptionOf(plan.v[i])
          /\ skills_used[i] = SkillOf(plan.v[i])
          /\ Cardinality(RunsAt(i)) = IF SkillOf(plan.v[i]) \in skills THEN 1 ELSE 0
          /\ \A k \in RunsAt(i) :
                /\ skill_runs[k].name = SkillOf(plan.v[i])
                /\ skill_runs[k].parameters = Get(plan.v[i], "parameters", EmptyDict)
    /\ \A k, l \in 1..Len(skill_runs) : k < l => skill_runs[k].at < skill_runs[l].at
    /\ \A k \in 1..Len(skill_runs) : skill_runs[k].at <= Len(results)
    /\ (pc = "exec_done" /\ StepsAreDicts) => Len(results) = Len(plan.v)
C11_Witness ==
    /\ pc = "exec_done"
    /\ Len(plan.v) = 2
    /\ StepsAreDicts
    /\ Get(plan.v[1], "step", Num(0)) = Num(2)
    /\ Get(plan.v[2], "step", Num(0)) = Num(1)
    /\ Len(results) = 2
    /\ Get(results[1].result, "success", NoneV) = Bool(FALSE)
    /\ Len(skill_runs) = 2
    /\ skill_runs[2].name = Str("open_app")

\* a single executed step whose result signals success
SingleSuccess ==
    /\ pc = "exec_done"
    /\ Len(plan.v) = 1
    /\ Len(results) = 1
    /\ SignalsSuccess(results)

\* C12: for a one-step plan whose result signals success, execute_plan returns the
\* first field the result holds among formatted, content, message, stdout, in
\* that order, and str(result) when it holds none of them; no completion call.
C12_UnwrapPrecedence ==
    SingleSuccess =>
        LET r == results[1].result IN
        /\ Has(r, "formatted") => outcome = r.v["formatted"]
        /\ (~Has(r, "formatted") /\ Has(r, "content")) => outcome = r.v["content"]
        /\ (~Has(r, "formatted") /\ ~Has(r, "content") /\ Has(r, "message")) =>
              outcome = r.v["message"]
        /\ (~Has(r, "formatted") /\ ~Has(r, "content") /\ ~Has(r, "message")
              /\ Has(r, "stdout")) => outcome = r.v["stdout"]
        /\ (~Has(r, "formatted") /\ ~Has(r, "content") /\ ~Has(r, "message")
              /\ ~Has(r, "stdout")) => outcome = PyStr(r)
        /\ brain_log = <<>>
C12_Witness ==
    /\ SingleSuccess
    /\ Has(results[1].result, "formatted")
    /\ Has(results[1].result, "content")
    /\ outcome = Str("1. title")
\* the fallback of C12 happens as well
C12_FallbackWitness ==
    /\ SingleSuccess
    /\ outcome = PyStr(results[1].result)

----------------------------------------------------------------------------
(* MemoryManager (core/memory.py): the preference table *)

\* what a memory operation returned: the operation, its arguments, its result
Returned(op, args, ret) == [op |-> op, args |-> args, ret |-> ret]
NoCall == Returned("none", <<>>, NoneV)

\* SELECT ... WHERE key = :key
PrefRowsFor(rows, key) == {r \in rows : r.key = key}
\* the autoincrement primary key
NextId(rows) == IF rows = {} THEN 1 ELSE MaxOf({r.id : r \in rows}) + 1
\* UserPreference(key=key, value=value) as inserted at clock value t
NewPreference(rows, key, value, t) ==
    [id |-> NextId(rows), key |-> key, value |-> value, created_at |-> t, updated_at |-> t]

\* variant: a row is inserted whether or not the key is already there
save_preference_always_insert(rows, key, value, t) ==
    {rows \cup {NewPreference(rows, key, value, t)}}
\* save_preference: the tables it can leave; .first() has no ORDER BY, so with
\* several rows for the key any of them is the one updated
save_preference(rows, key, value, t) ==
    IF PrefRowsFor(rows, key) = {}
    THEN {rows \cup {NewPreference(rows, key, value, t)}}
    ELSE {(rows \ {existing}) \cup {[existing EXCEPT !.value = value, !.updated_at = t]} :
              existing \in PrefRowsFor(rows, key)}
\* get_preference: the values it can return
get_preference(rows, key) ==
    IF PrefRowsFor(rows, key) = {} THEN {NoneV}
    ELSE {Str(r.value) : r \in PrefRowsFor(rows, key)}
\* get_all_preferences: the dicts the comprehension can build (the row iterated
\* last wins for its key)
get_all_preferences(rows) ==
    {d \in [{r.key : r \in rows} -> {r.value : r \in rows}] :
        \A k \in DOMAIN d : \E r \in PrefRowsFor(rows, k) : r.value = d[k]}

----------------------------------------------------------------------------
(* SpecPrefs: sequential histories of preference operations *)

\* the largest clock value
MaxClock == 2
\* the most save_preference calls of a history
MaxPrefSaves == 3
PrefKeys == {"theme", "voice"}
PrefValues == {"dark", "light"}

InitMem ==
    /\ pc = "memory"
    /\ message = <<>>
    /\ intent = NoneV
    /\ plan = NoneV
    /\ brain_log = <<>>
    /\ results = <<>>
    /\ skills_used = <<>>
    /\ skill_runs = <<>>
    /\ outcome = NoCall
    /\ IdleMem
    /\ IdleTurn

\* time passes between two operations
Tick ==
    /\ pc = "memory"
    /\ now < MaxClock
    /\ now' = now + 1
    /\ UNCHANGED <<pc, pipeVars, user_preferences, conversation_history, memory_collection, mem_log>>
    /\ UNCHANGED turnVars

SavePreference ==
    /\ pc = "memory"
    /\ Len(mem_log) < MaxPrefSaves
    /\ \E key \in PrefKeys, value \in PrefValues :
        /\ user_preferences' \in save_preference(user_preferences, key, value, now)
        /\ mem_log' = Append(mem_log, [key |-> key, value |-> value])
        /\ outcome' = Returned("save_preference", <<key, value>>, NoneV)
    /\ UNCHANGED <<pc, message, intent, plan, brain_log, results, skills_used, skill_runs,
                   conversation_history, memory_collection, now>>
    /\ UNCHANGED turnVars

GetPreference ==
    /\ pc = "memory"
    /\ \E key \in PrefKeys :
        \E ret \in get_preference(user_preferences, key) :
            outcome' = Returned("get_preference", <<key>>, ret)
    /\ UNCHANGED <<pc, message, intent, plan, brain_log, results, skills_used, skill_runs, memVars>>
    /\ UNCHANGED turnVars

GetAllPreferences ==
    /\ pc = "memory"
    /\ \E ret \in get_all_preferences(user_preferences) :
        outcome' = Returned("get_all_preferences", <<>>, ret)
    /\ UNCHANGED <<pc, message, intent, plan, brain_log, results, skills_used, skill_runs, memVars>>
    /\ UNCHANGED turnVars

NextPrefs == Tick \/ SavePreference \/ GetPreference \/ GetAllPreferences
SpecPrefs == InitMem /\ [][NextPrefs]_vars

\* the save_preference calls made for key k, as positions of mem_log
SavesOf(k) == {i \in 1..Len(mem_log) : mem_log[i].key = k}
LastSaved(k) == mem_log[MaxOf(SavesOf(k))].value

\* C5: in a sequential history, get_preference(k) returns the value of the latest
\* save_preference(k, _), the table holds exactly one row for every key saved, and
\* get_all_preferences() holds one entry for it, with that value.
C5_LastSaveWins ==
    /\ \A k \in PrefKeys :
          Cardinality(PrefRowsFor(user_preferences, k)) = IF SavesOf(k) = {} THEN 0 ELSE 1
    /\ outcome.op = "get_preference" =>
          outcome.ret = IF SavesOf(outcome.args[1]) = {} THEN NoneV
                        ELSE Str(LastSaved(outcome.args[1]))
    /\ outcome.op = "get_all_preferences" =>
          /\ DOMAIN outcome.ret = {k \in PrefKeys : SavesOf(k) # {}}
          /\ \A k \in DOMAIN outcome.ret : outcome.ret[k] = LastSaved(k)
C5_Witness ==
    /\ Len(mem_log) >= 2
    /\ mem_log[Len(mem_log) - 1] = [key |-> "theme", value |-> "dark"]
    /\ mem_log[Len(mem_log)] = [key |-> "theme", value |-> "light"]
    /\ outcome = Returned("get_preference", <<"theme">>, Str("light"))
    /\ Cardinality(user_preferences) = 1

----------------------------------------------------------------------------
(* MemoryManager: conversation history and the semantic collection *)

\* json.dumps of a list of strings, as completion-style tokens
RECURSIVE DumpElements(_)
DumpElements(xs) ==
    IF Len(xs) = 1 THEN <<LitTok(xs[1])>>
    ELSE <<LitTok(Head(xs)), Comma>> \o DumpElements(Tail(xs))
json_dumps(list) ==
    IF list.v = <<>> THEN <<LS, RS>> ELSE <<LS>> \o DumpElements(list.v) \o <<RS>>
\* datetime.isoformat()
IsoFormat(t) == [t |-> "iso", v |-> t]

\* the ConversationHistory row save_conversation inserts at clock value t
\* (rows are kept in insert order; the primary key is the position)
NewConversation(rows, user_message, assistant_response, intent_, skills_used_, t) ==
    [id |-> Len(rows) + 1,
     user_message |-> user_message,
     assistant_response |-> assistant_response,
     intent |-> intent_,
     skills_used |-> IF Truthy(skills_used_) THEN Txt(json_dumps(skills_used_)) ELSE NoneV,
     created_at |-> t]
\* the semantic entry save_conversation adds, its timestamp read at t2, its id at t3
SemanticEntry(user_message, assistant_response, intent_, skills_used_, t2, t3) ==
    [id |-> FStr(<<Str("conv_"), Num(t3)>>),
     document |-> FStr(<<Str("User: "), user_message, Str("Assistant: "), assistant_response>>),
     metadata |-> [intent |-> IF Truthy(intent_) THEN intent_ ELSE Str("unknown"),
                   timestamp |-> IsoFormat(t2),
                   skills |-> IF Truthy(skills_used_) THEN Txt(json_dumps(skills_used_))
                              ELSE Str("")]]

\* one dict of get_recent_conversations' list
ConversationDict(c) ==
    [user_message |-> c.user_message,
     assistant_response |-> c.assistant_response,
     intent |-> c.intent,
     skills_used |-> IF Truthy(c.skills_used) THEN json_loads(c.skills_used.v).val ELSE Arr(<<>>),
     created_at |-> IsoFormat(c.created_at)]

\* ORDER BY created_at DESC LIMIT limit: the row positions the query can return, in
\* the order it returns them; rows of equal created_at come in any order
OrderByCreatedAtDesc(rows, limit) ==
    LET n == Len(rows)
        m == IF limit < n THEN limit ELSE n
    IN  {sel \in [1..m -> 1..n] :
            /\ \A i, j \in 1..m : i < j =>
                  /\ sel[i] # sel[j]
                  /\ rows[sel[i]].created_at >= rows[sel[j]].created_at
            /\ \A k \in 1..n : (\A i \in 1..m : sel[i] # k) =>
                  \A i \in 1..m : rows[k].created_at <= rows[sel[i]].created_at}
\* get_recent_conversations: the lists it can return
get_recent_conversations(rows, limit) ==
    {[i \in 1..Len(sel) |-> ConversationDict(rows[sel[Len(sel) + 1 - i]])] :
        sel \in OrderByCreatedAtDesc(rows, limit)}

----------------------------------------------------------------------------
(* SpecConv: sequential histories of conversation operations *)

\* the most save_conversation calls of a history
MaxConvSaves == 3
\* the largest limit asked of get_recent_conversations
MaxLimit == 2
\* the turns saved: user_message, assistant_response, intent, skills_used
ConvInputs ==
    {[user_message |-> Str("open vscode"), assistant_response |-> Str("Opened vscode"),
      intent |-> Str("open_app"), skills_used |-> Arr(<<Str("open_app")>>)],
     [user_message |-> Str("open vscode and run tests"), assistant_response |-> Str("All done."),
      intent |-> Str("multi_step"), skills_used |-> Arr(<<Str("open_app"), Str("run_command")>>)],
     [user_message |-> Str("hello"), assistant_response |-> Str("Hi."),
      intent |-> NoneV, skills_used |-> NoneV]}
\* the clock values a later read of the same call can see
LaterReads(t) == {u \in t..(t + 1) : u <= MaxClock}

\* what save_conversation returned or raised for the turn c, and the phases it
\* attempted, in order
SaveReturned(c, ret, phases) ==
    [op |-> "save_conversation", args |-> <<c>>, ret |-> ret, phases |-> phases]
\* what the collection's add can do: an id already in the collection is either left
\* as it is or makes add raise, by the Chroma version; add can fail in any case
SemanticAdds(duplicate) == IF duplicate THEN {"ignored", "raises"} ELSE {"added", "raises"}

\* save_conversation: the row is committed with created_at = now, or the commit
\* raises and the exception leaves save_conversation; the collection's add then
\* reads the clock for the timestamp and for the id.
SaveConversation ==
    /\ pc = "memory"
    /\ Len(mem_log) < MaxConvSaves
    /\ \E c \in ConvInputs :
        \/ /\ outcome' = SaveReturned(c, Raise("OperationalError"), <<"relational">>)
           /\ UNCHANGED memVars
        \/ \E t2 \in LaterReads(now) : \E t3 \in {u \in LaterReads(now) : u >= t2} :
            LET entry == SemanticEntry(c.user_message, c.assistant_response, c.intent,
                                       c.skills_used, t2, t3)
                duplicate == \E i \in 1..Len(memory_collection) :
                                 memory_collection[i].id = entry.id
            IN  /\ conversation_history' =
                      Append(conversation_history,
                             NewConversation(conversation_history, c.user_message,
                                             c.assistant_response, c.intent, c.skills_used, now))
                /\ mem_log' = Append(mem_log, c)
                /\ now' = t3
                /\ \E add \in SemanticAdds(duplicate) :
                    /\ memory_collection' =
                          IF add = "added" THEN Append(memory_collection, entry)
                          ELSE memory_collection
                    /\ outcome' =
                          SaveReturned(c, IF add = "raises" THEN Raise("ChromaError") ELSE NoneV,
                                       <<"relational", "semantic">>)
    /\ UNCHANGED <<pc, message, intent, plan, brain_log, results, skills_used, skill_runs,
                   user_preferences>>
    /\ UNCHANGED turnVars

GetRecentConversations ==
    /\ pc = "memory"
    /\ \E limit \in 1..MaxLimit :
        \E ret \in get_recent_conversations(conversation_history, limit) :
            outcome' = Returned("get_recent_conversations", <<limit>>, ret)
    /\ UNCHANGED <<pc, message, intent, plan, brain_log, results, skills_used, skill_runs, memVars>>
    /\ UNCHANGED turnVars

NextConv == Tick \/ SaveConversation \/ GetRecentConversations
SpecConv == InitMem /\ [][NextConv]_vars

\* a returned dict is the saved turn c: same user_message, assistant_response and
\* intent, and same skills_used, no skills being read as the empty list
SameTurn(d, c) ==
    /\ d.user_message = c.user_message
    /\ d.assistant_response = c.assistant_response
    /\ d.intent = c.intent
    /\ d.skills_used = IF Truthy(c.skills_used) THEN c.skills_used ELSE Arr(<<>>)

\* C6: get_recent_conversations(n) returns the n most recently saved turns (all of
\* them when fewer were saved), oldest first, whatever their created_at values.
C6_RecentAreLatestSaved ==
    outcome.op = "get_recent_conversations" =>
        LET n == outcome.args[1]
            saved == Len(mem_log)
            m == IF n < saved THEN n ELSE saved
        IN  /\ Len(outcome.ret) = m
            /\ \A i \in 1..m : SameTurn(outcome.ret[i], mem_log[saved - m + i])
\* the same, for histories whose rows all carry different created_at values
C6_DistinctTimestamps ==
    (\A i, j \in 1..Len(conversation_history) :
        i # j => conversation_history[i].created_at # conversation_history[j].created_at)
    => C6_RecentAreLatestSaved
C6_DistinctWitness ==
    /\ Len(mem_log) = 3
    /\ outcome.op = "get_recent_conversations"
    /\ outcome.args = <<2>>
    /\ conversation_history[1].created_at < conversation_history[2].created_at
    /\ conversation_history[2].created_at < conversation_history[3].created_at
    /\ mem_log[2] # mem_log[3]

\* C13: every save_conversation call attempts the relational insert and the
\* semantic insert, also when the relational insert fails; and when the semantic
\* insert fails the row of the turn stays committed.
C13_BothPhasesAttempted ==
    outcome.op = "save_conversation" =>
        /\ outcome.phases = <<"relational", "semantic">>
        /\ (IsRaise(outcome.ret) /\ outcome.phases = <<"relational", "semantic">>) =>
              /\ conversation_history # <<>>
              /\ SameTurn(ConversationDict(conversation_history[Len(conversation_history)]),
                          outcome.args[1])
\* the half of C13 the code keeps: a failed semantic insert leaves the row committed
C13_SemanticFailureKeepsRow ==
    (outcome.op = "save_conversation" /\ outcome.phases = <<"relational", "semantic">>) =>
        /\ conversation_history # <<>>
        /\ SameTurn(ConversationDict(conversation_history[Len(conversation_history)]),
                    outcome.args[1])
C13_SemanticFailureWitness ==
    /\ outcome.op = "save_conversation"
    /\ outcome.ret = Raise("ChromaError")
    /\ Len(conversation_history) = 2
    /\ Len(memory_collection) = 1

----------------------------------------------------------------------------
(* SpecPrefsConc: concurrent save_preference calls, each in its own Session *)

\* the number of concurrent callers
MaxCallers == 2
Callers == 1..MaxCallers
\* a caller's position in save_preference: before its SELECT, between its SELECT
\* and its commit (existing is the id of the row .first() gave, 0 for None), or done
CallerAt(at, key, value, existing) ==
    [at |-> at, key |-> key, value |-> value, existing |-> existing]
\* .first() of the SELECT of save_preference: the ids it can give, 0 for None
SelectFirst(rows, key) ==
    IF PrefRowsFor(rows, key) = {} THEN {0} ELSE {r.id : r \in PrefRowsFor(rows, key)}
\* the table after the caller's commit: the UPDATE of the row it selected, or the
\* INSERT of a new row; no constraint of the table rejects a second row for the key
CommitSave(rows, existing, key, value, t) ==
    IF existing = 0
    THEN rows \cup {NewPreference(rows, key, value, t)}
    ELSE {IF r.id = existing THEN [r EXCEPT !.value = value, !.updated_at = t] ELSE r :
              r \in rows}

InitPrefsConc ==
    /\ pc = [c \in Callers |-> CallerAt("start", "", "", 0)]
    /\ message = <<>>
    /\ intent = NoneV
    /\ plan = NoneV
    /\ brain_log = <<>>
    /\ results = <<>>
    /\ skills_used = <<>>
    /\ skill_runs = <<>>
    /\ outcome = NoCall
    /\ user_preferences \in {{}, {NewPreference({}, "theme", "dark", 0)}}
    /\ conversation_history = <<>>
    /\ memory_collection = <<>>
    /\ now = 0
    /\ mem_log = <<>>
    /\ IdleTurn

\* save_preference up to the result of its SELECT
SelectPreference(c) ==
    /\ pc[c].at = "start"
    /\ \E key \in PrefKeys, value \in PrefValues :
        \E existing \in SelectFirst(user_preferences, key) :
            pc' = [pc EXCEPT ![c] = CallerAt("selected", key, value, existing)]
    /\ UNCHANGED <<pipeVars, memVars>>
    /\ UNCHANGED turnVars

\* save_preference from there to the end of session.commit()
CommitPreference(c) ==
    /\ pc[c].at = "selected"
    /\ user_preferences' =
          CommitSave(user_preferences, pc[c].existing, pc[c].key, pc[c].value, now)
    /\ mem_log' = Append(mem_log, [key |-> pc[c].key, value |-> pc[c].value])
    /\ pc' = [pc EXCEPT ![c].at = "done"]
    /\ UNCHANGED <<pipeVars, conversation_history, memory_collection, now>>
    /\ UNCHANGED turnVars

\* get_preference, called when every save_preference has returned
ReadPreference ==
    /\ \A c \in Callers : pc[c].at = "done"
    /\ \E key \in PrefKeys :
        \E ret \in get_preference(user_preferences, key) :
            outcome' = Returned("get_preference", <<key>>, ret)
    /\ UNCHANGED <<pc, message, intent, plan, brain_log, results, skills_used, skill_runs, memVars>>
    /\ UNCHANGED turnVars

NextPrefsConc ==
    \/ \E c \in Callers : SelectPreference(c)
    \/ \E c \in Callers : CommitPreference(c)
    \/ ReadPreference
SpecPrefsConc == InitPrefsConc /\ [][NextPrefsConc]_vars

\* C14: when the concurrent save_preference calls have all returned, every key they
\* wrote has exactly one row, that row holds the value of the call that committed
\* last, and get_preference returns that value.
C14_ConcurrentSavesOneRow ==
    (\A c \in Callers : pc[c].at = "done") =>
        /\ \A k \in PrefKeys : SavesOf(k) # {} =>
              /\ Cardinality(PrefRowsFor(user_preferences, k)) = 1
              /\ \A r \in PrefRowsFor(user_preferences, k) : r.value = LastSaved(k)
        /\ (outcome.op = "get_preference" /\ SavesOf(outcome.args[1]) # {}) =>
              outcome.ret = Str(LastSaved(outcome.args[1]))

----------------------------------------------------------------------------
(* Claims about the completion-assisted intent pass, checked under SpecIntent *)

\* some stretch of the completion text that starts at a "{" is a JSON object
ContainsJsonObject(text) ==
    \E i \in 1..Len(text) : \E j \in i..Len(text) :
        /\ text[i].t = "{"
        /\ json_loads(SubSeq(text, i, j)).ok

\* C20: for an utterance no rule matches (rule confidence 0.5) and every completion
\* text that holds no parsable JSON object, extract_intent returns the
\* conversational intent with confidence 0.5 and empty parameters, after one
\* completion call; and what extract_intent returned is a dict, never an exception.
C20_UnparsableFallsBack ==
    /\ \A response \in IntentResponses :
          (RuleConfidence(message) < ConfThreshold /\ ~ContainsJsonObject(response)) =>
              /\ extract_intent(message, response).intent = ConversationalDefault
              /\ Len(extract_intent(message, response).calls) = 1
    /\ pc = "intent_done" => IsDict(intent)
C20_Witness ==
    /\ pc = "intent_done"
    /\ RuleConfidence(message) = ConfDefault
    /\ Len(brain_log) = 1
    /\ intent = ConversationalDefault
    /\ \E response \in IntentResponses :
          /\ ~ContainsJsonObject(response)
          /\ FindTok(response, "{") >= 1
          /\ RFindTok(response, "}") > FindTok(response, "{")

----------------------------------------------------------------------------
(* MemoryManager: the fact table; Personalization (core/personalization.py) *)

\* SELECT ... WHERE fact_key = :fact_key
FactRowsFor(rows, fact_key) == {r \in rows : r.fact_key = fact_key}
\* UserFact(fact_key=fact_key, fact_value=fact_value) as inserted at clock value t
NewFact(rows, fact_key, fact_value, t) ==
    [id |-> NextId(rows), fact_key |-> fact_key, fact_value |-> fact_value,
     created_at |-> t, updated_at |-> t]
\* variant: the row of the key is deleted and a new one inserted
save_fact_reinsert(rows, fact_key, fact_value, t) ==
    {(rows \ FactRowsFor(rows, fact_key)) \cup {NewFact(rows, fact_key, fact_value, t)}}
\* save_fact: the tables it can leave (as save_preference)
save_fact(rows, fact_key, fact_value, t) ==
    IF FactRowsFor(rows, fact_key) = {}
    THEN {rows \cup {NewFact(rows, fact_key, fact_value, t)}}
    ELSE {(rows \ {existing}) \cup
              {[existing EXCEPT !.fact_value = fact_value, !.updated_at = t]} :
              existing \in FactRowsFor(rows, fact_key)}

\* the literal prefixes of name_patterns, in list order
NamePatterns ==
    <<<<"m","y"," ","n","a","m","e"," ","i","s"," ">>,
      <<"c","a","l","l"," ","m","e"," ">>,
      <<"i","'","m"," ">>,
      <<"i"," ","a","m"," ">>>>
\* the end of the run of letters that starts at s[i]
RECURSIVE LetterRunEnd(_, _)
LetterRunEnd(s, i) == IF i < Len(s) /\ s[i + 1] \in Letters THEN LetterRunEnd(s, i + 1) ELSE i
\* where `prefix([A-Z][a-z]+)` matches under re.IGNORECASE: the prefix in any case,
\* then two letters or more
NameMatchesAt(s, lowered, prefix, i) ==
    /\ IsPrefixAt(lowered, prefix, i)
    /\ i + Len(prefix) + 1 <= Len(s)
    /\ s[i + Len(prefix)] \in Letters
    /\ s[i + Len(prefix) + 1] \in Letters
\* re.search(pattern, user_message, re.IGNORECASE).group(1), or NoneV
NameSearch(s, prefix) ==
    LET lowered == Lower(s)
        starts == {j \in 1..Len(s) : NameMatchesAt(s, lowered, prefix, j)}
    IN  IF starts = {} THEN NoneV
        ELSE Txt(SubSeq(s, MinOf(starts) + Len(prefix),
                        LetterRunEnd(s, MinOf(starts) + Len(prefix))))
\* the name of the first pattern of name_patterns that matches, or NoneV
ExtractedName(user_message) ==
    LET found == [k \in 1..Len(NamePatterns) |-> NameSearch(user_message, NamePatterns[k])]
        matching == {k \in 1..Len(NamePatterns) : found[k] # NoneV}
    IN  IF matching = {} THEN NoneV ELSE found[MinOf(matching)]

\* tone_keywords, in dict order
ToneKeywords ==
    <<[tone |-> "formal",
       keywords |-> <<<<"f","o","r","m","a","l">>,
                      <<"p","r","o","f","e","s","s","i","o","n","a","l">>,
                      <<"b","u","s","i","n","e","s","s">>>>],
      [tone |-> "casual",
       keywords |-> <<<<"c","a","s","u","a","l">>, <<"r","e","l","a","x","e","d">>,
                      <<"f","r","i","e","n","d","l","y">>>>],
      [tone |-> "technical",
       keywords |-> <<<<"t","e","c","h","n","i","c","a","l">>,
                      <<"d","e","t","a","i","l","e","d">>, <<"p","r","e","c","i","s","e">>>>]>>
\* the first tone one of whose keywords is in user_message.lower(), or NoneV
ExtractedTone(user_message) ==
    LET lowered == Lower(user_message)
        matching == {k \in 1..Len(ToneKeywords) : AnyIn(ToneKeywords[k].keywords, lowered)}
    IN  IF matching = {} THEN NoneV ELSE Str(ToneKeywords[MinOf(matching)].tone)

\* str(value) of a parsed JSON value
StrOf(value) == IF value.t = "str" THEN value ELSE PyStr(value)
\* one save call made by personalization: the table, the key and the value
SaveCall(table, key, value) == [table |-> table, key |-> key, value |-> value]
\* a state of the two tables while personalization runs: the tables, the save calls
\* made so far, and the exception that left the method, NoneV for none
Saved(prefs, facts, saves, raised) ==
    [prefs |-> prefs, facts |-> facts, saves |-> saves, raised |-> raised]

\* save_preference(key, value) called in the state st
SavePreferenceIn(st, key, value, t) ==
    {Saved(tb, st.facts, Append(st.saves, SaveCall("user_preferences", key, value)), NoneV) :
        tb \in save_preference(st.prefs, key, value, t)}
\* save_fact(key, value) called in the state st
SaveFactIn(st, key, value, t) ==
    {Saved(st.prefs, tb, Append(st.saves, SaveCall("user_facts", key, value)), NoneV) :
        tb \in save_fact(st.facts, key, value, t)}
\* for key, value in mapping.items(): save_preference(key, str(value)), from each
\* of the states `from`; the model's dicts keep no order, so every order is taken
RECURSIVE SavePreferences(_, _, _, _)
SavePreferences(from, mapping, keys, t) ==
    IF keys = {} THEN from
    ELSE UNION {SavePreferences(
                    UNION {SavePreferenceIn(st, k, StrOf(mapping[k]), t) : st \in from},
                    mapping, keys \ {k}, t) : k \in keys}
\* for key, value in mapping.items(): save_fact(key, str(value))
RECURSIVE SaveFacts(_, _, _, _)
SaveFacts(from, mapping, keys, t) ==
    IF keys = {} THEN from
    ELSE UNION {SaveFacts(
                    UNION {SaveFactIn(st, k, StrOf(mapping[k]), t) : st \in from},
                    mapping, keys \ {k}, t) : k \in keys}

ExtractionPrompt(user_message, assistant_response) ==
    <<Str("Analyze this conversation and extract any user preferences, facts, or information that should be remembered. User: "),
      user_message, Str("Assistant: "), assistant_response,
      Str("Respond with ONLY valid JSON, no other text:")>>

\* variant: the except clause names json.JSONDecodeError only
_llm_extract_preferences_narrow_except(st, text, t) ==
    LET json_start == FindTok(text, "{")
        json_end == RFindTok(text, "}")
        parsed == json_loads(SubSeq(text, json_start, json_end))
    IN  IF ~(json_start >= 1 /\ json_end >= json_start) \/ ~parsed.ok THEN {st}
        ELSE IF ~IsDict(Get(parsed.val, "preferences", EmptyDict))
        THEN {[st EXCEPT !.raised = [t |-> "raise", v |-> "AttributeError"]]}
        ELSE LET preferences == Get(parsed.val, "preferences", EmptyDict).v
                 after == SavePreferences({st}, preferences, DOMAIN preferences, t)
             IN  IF ~IsDict(Get(parsed.val, "facts", EmptyDict))
                 THEN {[a EXCEPT !.raised = [t |-> "raise", v |-> "AttributeError"]] : a \in after}
                 ELSE LET facts == Get(parsed.val, "facts", EmptyDict).v
                      IN  SaveFacts(after, facts, DOMAIN facts, t)

\* _llm_extract_preferences after its completion call answered `text`: the states
\* it can leave from st. json.loads raising, and .items() raising AttributeError on
\* a value that is no dict, end the pass with what was saved until then.
_llm_extract_preferences(st, text, t) ==
    LET json_start == FindTok(text, "{")
        json_end == RFindTok(text, "}")
        parsed == json_loads(SubSeq(text, json_start, json_end))
    IN  IF ~(json_start >= 1 /\ json_end >= json_start) \/ ~parsed.ok THEN {st}
        ELSE IF ~IsDict(Get(parsed.val, "preferences", EmptyDict)) THEN {st}
        ELSE LET preferences == Get(parsed.val, "preferences", EmptyDict).v
                 after == SavePreferences({st}, preferences, DOMAIN preferences, t)
             IN  IF ~IsDict(Get(parsed.val, "facts", EmptyDict)) THEN after
                 ELSE LET facts == Get(parsed.val, "facts", EmptyDict).v
                      IN  SaveFacts(after, facts, DOMAIN facts, t)

\* the first two passes of extract_and_save_preferences: the name, then the tone
RulePasses(st, user_message, t) ==
    LET name == ExtractedName(user_message)
        tone == ExtractedTone(user_message)
        named == IF name # NoneV THEN SavePreferenceIn(st, "user_name", name, t) ELSE {st}
    IN  IF tone # NoneV
        THEN UNION {SavePreferenceIn(n, "tone_style", tone, t) : n \in named}
        ELSE named
\* extract_and_save_preferences, `text` being the completion's answer: the states
\* it can leave from st
extract_and_save_preferences(st, user_message, text, t) ==
    UNION {_llm_extract_preferences(r, text, t) : r \in RulePasses(st, user_message, t)}

----------------------------------------------------------------------------
(* SpecPersonal: extract_and_save_preferences applied to utterances and completions *)

\* the longest utterance of the personalization specification, in pieces
MaxPersonalChunks == 2
PersonalChunks ==
    {<<" ">>,
     <<"m","y"," ","n","a","m","e"," ","i","s"," ","B","o","b">>,
     <<"C","a","l","l"," ","m","e"," ","a","l","!">>,
     <<"b","e"," ","f","o","r","m","a","l">>,
     <<"I","'","m"," ","c","a","s","u","a","l">>,
     <<"i"," ","a","m"," ","X">>}
\* completions for the extraction prompt: no object, malformed and reversed braces, two
\* objects, full answers, and objects whose preferences or facts are no mappings
ExtractionTexts ==
    {<<Prose>>,
     <<LB, KeyTok("preferences"), RB>>,
     <<RB, LB>>,
     <<LB, RB, Prose, LB, RB>>,
     <<LB, KeyTok("preferences"), LB, KeyTok("editor"), LitTok(Str("vim")), RB, Comma,
       KeyTok("facts"), LB, KeyTok("job"), LitTok(Str("dev")), RB, RB>>,
     <<Prose, LB, KeyTok("facts"), LB, KeyTok("city"), LitTok(Str("Paris")), Comma,
       KeyTok("age"), LitTok(Num(30)), RB, RB, Prose>>,
     <<LB, KeyTok("preferences"), LS, LitTok(Str("vim")), RS, Comma,
       KeyTok("facts"), LB, KeyTok("job"), LitTok(Str("dev")), RB, RB>>,
     <<LB, KeyTok("preferences"), LB, KeyTok("user_name"), LitTok(Str("Zed")), Comma,
       KeyTok("editor"), LitTok(Str("vim")), RB, Comma, KeyTok("facts"), LitTok(Str("none")), RB>>,
     <<LB, KeyTok("preferences"), LitTok(NoneV), Comma, KeyTok("facts"), LitTok(Num(7)), RB>>}

InitPersonal ==
    /\ pc = "personalize"
    /\ message \in Phrases(PersonalChunks, MaxPersonalChunks)
    /\ intent = NoneV
    /\ plan = NoneV
    /\ brain_log = <<>>
    /\ results = <<>>
    /\ skills_used = <<>>
    /\ skill_runs = <<>>
    /\ outcome = NoCall
    /\ user_preferences \in {{}, {NewPreference({}, "user_name", Str("Old"), 0)}}
    /\ conversation_history = <<>>
    /\ memory_collection = <<>>
    /\ now = 1
    /\ mem_log = <<>>
    /\ mode = "none"
    /\ turns = 0
    /\ sent = <<>>
    /\ reply = Str("Noted.")
    /\ turn_context = NoneV
    /\ brain_history = <<>>
    /\ user_facts \in {{}, {NewFact({}, "job", Str("pilot"), 0)}}
    /\ stages = <<>>

\* Personalization.extract_and_save_preferences(message, reply); mem_log takes the
\* save calls it made, outcome the completion text and what the method raised
ExtractAndSave ==
    /\ pc = "personalize"
    /\ \E text \in ExtractionTexts :
        \E st \in extract_and_save_preferences(
                      Saved(user_preferences, user_facts, <<>>, NoneV), message, text, now) :
            /\ user_preferences' = st.prefs
            /\ user_facts' = st.facts
            /\ mem_log' = st.saves
            /\ outcome' = Returned("extract_and_save_preferences", <<text>>, st.raised)
    /\ brain_log' = Append(brain_log, BrainCall(ExtractionPrompt(Txt(message), reply), NoneV, NoneV))
    /\ pc' = "personalize_done"
    /\ UNCHANGED <<message, intent, plan, results, skills_used, skill_runs,
                   conversation_history, memory_collection, now,
                   mode, turns, sent, reply, turn_context, brain_history, stages>>

NextPersonal == ExtractAndSave
SpecPersonal == InitPersonal /\ [][NextPersonal]_vars

\* the JSON value between the first "{" and the last "}" of the text
Sliced(text) == json_loads(SubSeq(text, FindTok(text, "{"), RFindTok(text, "}")))
\* the text holds no "{" ... "}" stretch, or the stretch is no JSON
NoJsonIn(text) ==
    \/ FindTok(text, "{") = 0
    \/ RFindTok(text, "}") < FindTok(text, "{")
    \/ ~Sliced(text).ok
\* the text's JSON object has a value of that name which is no mapping
NotMapping(text, name) ==
    /\ ~NoJsonIn(text)
    /\ Has(Sliced(text).val, name)
    /\ ~IsDict(Sliced(text).val.v[name])
\* the save calls of the name pass and of the tone pass for the utterance
RuleSaves(user_message) ==
    (IF ExtractedName(user_message) # NoneV
     THEN <<SaveCall("user_preferences", "user_name", ExtractedName(user_message))>>
     ELSE <<>>)
    \o (IF ExtractedTone(user_message) # NoneV
        THEN <<SaveCall("user_preferences", "tone_style", ExtractedTone(user_message))>>
        ELSE <<>>)
\* the table holds a row with that key and that value
HoldsPreference(rows, key, value) == \E r \in rows : r.key = key /\ r.value = value

C19_PartialWitness ==
    /\ pc = "personalize_done"
    /\ NotMapping(outcome.args[1], "facts")
    /\ HoldsPreference(user_preferences, "editor", Str("vim"))
    /\ HoldsPreference(user_preferences, "user_name", Str("Zed"))
    /\ ExtractedName(message) # NoneV

----------------------------------------------------------------------------
(* The turn handlers: ask_question (routes/ask.py) and websocket_endpoint   *)
(* (routes/websocket.py). A handler state `st` is a record holding every    *)
(* variable under its name; each stage of a turn is an operator from a      *)
(* handler state and what the environment answers to the handler state that *)
(* follows.                                                                 *)

\* settings.MAX_CONVERSATION_HISTORY
MAX_CONVERSATION_HISTORY == 50

TurnState ==
    [pc |-> pc, message |-> message, intent |-> intent, plan |-> plan,
     brain_log |-> brain_log, results |-> results, skills_used |-> skills_used,
     skill_runs |-> skill_runs, outcome |-> outcome,
     user_preferences |-> user_preferences, conversation_history |-> conversation_history,
     memory_collection |-> memory_collection, now |-> now, mem_log |-> mem_log,
     mode |-> mode, turns |-> turns, sent |-> sent, reply |-> reply,
     turn_context |-> turn_context, brain_history |-> brain_history,
     user_facts |-> user_facts, stages |-> stages]
Install(st) ==
    /\ pc' = st.pc
    /\ message' = st.message
    /\ intent' = st.intent
    /\ plan' = st.plan
    /\ brain_log' = st.brain_log
    /\ results' = st.results
    /\ skills_used' = st.skills_used
    /\ skill_runs' = st.skill_runs
    /\ outcome' = st.outcome
    /\ user_preferences' = st.user_preferences
    /\ conversation_history' = st.conversation_history
    /\ memory_collection' = st.memory_collection
    /\ now' = st.now
    /\ mem_log' = st.mem_log
    /\ mode' = st.mode
    /\ turns' = st.turns
    /\ sent' = st.sent
    /\ reply' = st.reply
    /\ turn_context' = st.turn_context
    /\ brain_history' = st.brain_history
    /\ user_facts' = st.user_facts
    /\ stages' = st.stages

\* what the client is sent; `turn` is the number of the query being handled (it is
\* not part of the payload)
StatusMessage(st, status, payload) ==
    [turn |-> st.turns, kind |-> "status", status |-> status, payload |-> payload]
ErrorMessage(st, detail) ==
    [turn |-> st.turns, kind |-> "error", status |-> "error", payload |-> detail]
AskResponse(st, payload) ==
    [turn |-> st.turns, kind |-> "response", status |-> "200", payload |-> payload]
HTTPException(st, detail) ==
    [turn |-> st.turns, kind |-> "error", status |-> "500", payload |-> detail]

\* variant: the preferences are extracted before the conversation is saved
StageAfter_personalize_first(stage) ==
    CASE stage = "context" -> "intent"
      [] stage = "intent" -> "plan"
      [] stage = "plan" -> "execute"
      [] stage = "execute" -> "personalize"
      [] stage = "personalize" -> "persist"
      [] stage = "persist" -> "history"
      [] stage = "history" -> "receive"
\* the statements of a turn, in the order both handlers have them: the stage that
\* follows each stage, the last being followed by the next query
StageAfter(stage) ==
    CASE stage = "context" -> "intent"
      [] stage = "intent" -> "plan"
      [] stage = "plan" -> "execute"
      [] stage = "execute" -> "persist"
      [] stage = "persist" -> "personalize"
      [] stage = "personalize" -> "history"
      [] stage = "history" -> "receive"
\* a stage that has finished: it is entered in `stages` and the handler moves on
Finished(st, stage) == [st EXCEPT !.stages = Append(@, stage), !.pc = StageAfter(stage)]

\* the outermost except clause: ask_question turns the exception into an HTTP 500
\* response and the server takes the next request; websocket_endpoint sends one error
\* message and leaves its receive loop
TurnFail(st, exc) ==
    IF st.mode = "ask"
    THEN [st EXCEPT !.sent = Append(@, HTTPException(st, PyStr(exc))),
                    !.outcome = exc, !.pc = "receive"]
    ELSE [st EXCEPT !.sent = Append(@, ErrorMessage(st, PyStr(exc))),
                    !.outcome = exc, !.pc = "closed"]

\* the top of a turn. ask_question takes any query string; websocket_endpoint answers
\* an empty query with an error message and waits for the next one, and answers any
\* other with the processing status. The locals of the previous turn are gone and
\* the clock has moved on.
TurnReceive(st, query) ==
    LET fresh == [st EXCEPT !.turns = @ + 1, !.now = @ + 1, !.message = query,
                            !.intent = NoneV, !.plan = NoneV, !.reply = NoneV,
                            !.turn_context = NoneV, !.stages = <<>>, !.brain_log = <<>>,
                            !.results = <<>>, !.skills_used = <<>>, !.skill_runs = <<>>,
                            !.mem_log = <<>>, !.outcome = NoneV]
    IN  IF fresh.mode = "ask" THEN [fresh EXCEPT !.pc = "context"]
        ELSE IF query = <<>>
        THEN [fresh EXCEPT !.sent = Append(@, ErrorMessage(fresh, Str("Query is required")))]
        ELSE [fresh EXCEPT !.sent = Append(@, StatusMessage(fresh, "processing", Str("Thinking..."))),
                           !.pc = "context"]

\* the sequences of k different elements of the set S
InjectiveSeqs(S, k) == {f \in [1..k -> S] : \A i, j \in 1..k : i # j => f[i] # f[j]}
\* search_semantic_memory(query, n_results): the lists it can return. The collection
\* answers with its n_results nearest entries, nearest first (with all its entries
\* when it holds fewer); which entries are nearest to the query is the embedding's
\* matter, so any choice and any order of them is possible. The distance of a
\* memory is left out.
search_semantic_memory(collection, n_results) ==
    LET k == IF Len(collection) < n_results THEN Len(collection) ELSE n_results IN
    {[i \in 1..k |-> [content |-> collection[sel[i]].document,
                      metadata |-> collection[sel[i]].metadata]] :
        sel \in InjectiveSeqs(1..Len(collection), k)}
\* prefs.items() of get_all_preferences' dict: the (key, value) pairs in the order
\* of the rows the SELECT returned, which has no ORDER BY
PreferenceItems(rows) ==
    UNION {{[i \in 1..Cardinality(DOMAIN d) |-> <<keys[i], d[keys[i]]>>] :
               keys \in InjectiveSeqs(DOMAIN d, Cardinality(DOMAIN d))} :
           d \in get_all_preferences(rows)}
\* the lines of the three sections of get_memory_context
SemanticLines(memories) ==
    IF memories = <<>> THEN <<>>
    ELSE <<Str("## Relevant Past Conversations:")>>
         \o [i \in 1..Len(memories) |-> FStr(<<Str("- "), memories[i].content>>)]
PreferenceLines(items) ==
    IF items = <<>> THEN <<>>
    ELSE <<Str("\n## User Preferences:")>>
         \o [i \in 1..Len(items) |-> FStr(<<Str("- "), items[i][1], Str(": "), items[i][2]>>)]
RecentLines(recent) ==
    IF recent = <<>> THEN <<>>
    ELSE <<Str("\n## Recent Conversation History:")>>
         \o [i \in 1..(2 * Len(recent)) |->
                IF i % 2 = 1 THEN FStr(<<Str("User: "), recent[(i + 1) \div 2].user_message>>)
                ELSE FStr(<<Str("Assistant: "), recent[i \div 2].assistant_response>>)]
\* "\n".join(context_parts) if context_parts else ""
JoinLines(context_parts) ==
    IF context_parts = <<>> THEN Str("") ELSE [t |-> "lines", v |-> context_parts]
\* get_memory_context: the strings it can return, as the lines they are joined from
get_memory_context(collection, preferences, conversations) ==
    {JoinLines(SemanticLines(memories) \o PreferenceLines(items) \o RecentLines(recent)) :
        memories \in search_semantic_memory(collection, 3),
        items \in PreferenceItems(preferences),
        recent \in get_recent_conversations(conversations, 5)}
\* the values get_preference can return for the key
PreferenceValues(rows, key) ==
    IF PrefRowsFor(rows, key) = {} THEN {NoneV} ELSE {r.value : r \in PrefRowsFor(rows, key)}
\* get_personalization_context: the strings it can return, as the parts they are
\* joined from
get_personalization_context(preferences, facts) ==
    {IF name = NoneV /\ tone = NoneV /\ apps = NoneV /\ facts = {} THEN Str("")
     ELSE [t |-> "personalization_context",
           v |-> [name |-> name, tone |-> tone, apps |-> apps,
                  facts |-> {<<f.fact_key, f.fact_value>> : f \in facts}]] :
        name \in PreferenceValues(preferences, "user_name"),
        tone \in PreferenceValues(preferences, "tone_style"),
        apps \in PreferenceValues(preferences, "frequent_apps")}

\* context assembly: the semantic search raises, or both contexts are built
TurnContext(st, search, memory_context, personalization_context) ==
    IF search = "raises" THEN TurnFail(st, Raise("ChromaError"))
    ELSE Finished([st EXCEPT !.turn_context =
                                 [memory_context |-> memory_context,
                                  personalization_context |-> personalization_context]],
                  "context")

\* intent classification, `response` being the completion's answer if it is asked
TurnIntent(st, response) ==
    LET r == extract_intent(st.message, response)
        got == [st EXCEPT !.intent = r.intent, !.brain_log = @ \o r.calls]
    IN  Finished(IF st.mode = "ws"
                 THEN [got EXCEPT !.sent = Append(@, StatusMessage(st, "intent_extracted", r.intent))]
                 ELSE got,
                 "intent")

\* variant: the plan is made and no status message is sent
TurnPlan_silent(st, response) ==
    LET r == plan_(st.message, st.intent, response)
        called == [st EXCEPT !.brain_log = @ \o r.calls]
    IN  IF IsRaise(r.ret) THEN TurnFail(called, r.ret)
        ELSE Finished([called EXCEPT !.plan = r.ret], "plan")
\* planning, `response` being the completion's answer if it is asked; plan raises
\* KeyError on an intent without its keys
TurnPlan(st, response) ==
    LET r == plan_(st.message, st.intent, response)
        called == [st EXCEPT !.brain_log = @ \o r.calls]
        got == [called EXCEPT !.plan = r.ret]
    IN  IF IsRaise(r.ret) THEN TurnFail(called, r.ret)
        ELSE Finished(IF st.mode = "ws"
                      THEN [got EXCEPT !.sent = Append(@, StatusMessage(st, "plan_created", r.ret))]
                      ELSE got,
                      "plan")

\* execute_plan's loop over the first n steps: the entries of `results`, and the
\* skill.run invocations made, runs[i] being what the skill of step i does if it runs
ResultsOf(steps, runs, n) ==
    [i \in 1..n |->
        ResultEntry(steps[i],
                    execute_skill(Get(steps[i], "skill", Str("conversational")),
                                  Get(steps[i], "parameters", EmptyDict), runs[i]).ret)]
RECURSIVE RunsOf(_, _, _)
RunsOf(steps, runs, n) ==
    IF n = 0 THEN <<>>
    ELSE LET skill_name == Get(steps[n], "skill", Str("conversational"))
             parameters == Get(steps[n], "parameters", EmptyDict)
         IN  IF execute_skill(skill_name, parameters, runs[n]).ran
             THEN Append(RunsOf(steps, runs, n - 1),
                         [at |-> n, name |-> skill_name, parameters |-> parameters,
                          outcome |-> runs[n]])
             ELSE RunsOf(steps, runs, n - 1)
\* execute_plan(plan, user_message, brain): what it returns or raises, with the
\* results it collected, the runs it made and its completion calls; step.get raises
\* AttributeError at the first step that is no dict
execute_plan(steps, user_message, runs, response) ==
    LET dicts == {i \in 0..Len(steps) : \A j \in 1..i : IsDict(steps[j])}
        n == CHOOSE i \in dicts : \A j \in dicts : j <= i
        rs == ResultsOf(steps, runs, n)
        combined == CombineResults(rs, user_message, response)
    IN  [ret |-> IF n < Len(steps) THEN Raise("AttributeError") ELSE combined.ret,
         calls |-> IF n < Len(steps) THEN <<>> ELSE combined.calls,
         results |-> rs,
         skill_runs |-> RunsOf(steps, runs, n)]

\* the system instruction of the direct completion
SystemInstruction(personalization_context) ==
    FStr(<<Str("You are Jarvis, an AI assistant. Here is your identity and purpose: "),
           Str("jarvis_identity"), personalization_context,
           Str("Be helpful, concise, and friendly. Always remember who you are and your purpose.")>>)
\* variant: only an empty plan leads to the direct completion
DirectCompletion_empty_plan_only(st) == st.plan.v = <<>>
\* the handler takes the direct completion rather than execute_plan
DirectCompletion(st) == st.intent.v["intent"] = Str("conversational") \/ st.plan.v = <<>>
\* [step.get("skill") for step in plan if step.get("skill")]
SkillsUsed(steps) ==
    SelectSeq([i \in 1..Len(steps) |-> Get(steps[i], "skill", NoneV)], Truthy)

\* execution or direct completion, then the list of skills used; runs is what the
\* skills do and `response` what the completion answers if it is asked. The
\* streaming handler sends its complete message here, before anything is saved.
TurnExecute(st, runs, response) ==
    LET steps == st.plan.v
        memory_context == st.turn_context.memory_context
        ex == execute_plan(steps, st.message, runs, response)
        answered ==
            IF DirectCompletion(st)
            THEN [st EXCEPT !.reply = response,
                            !.brain_log =
                                Append(@, BrainCall(<<Txt(st.message)>>,
                                                    IF memory_context = Str("") THEN NoneV
                                                    ELSE memory_context,
                                                    SystemInstruction(
                                                        st.turn_context.personalization_context)))]
            ELSE [st EXCEPT !.reply = ex.ret, !.brain_log = @ \o ex.calls,
                            !.results = ex.results, !.skill_runs = ex.skill_runs]
    IN  IF ~DirectCompletion(st) /\ IsRaise(ex.ret)
        THEN TurnFail([answered EXCEPT !.reply = NoneV], ex.ret)
        ELSE IF \E i \in 1..Len(steps) : ~IsDict(steps[i])
        THEN TurnFail(answered, Raise("AttributeError"))
        ELSE LET done == [answered EXCEPT !.skills_used = SkillsUsed(steps)] IN
             Finished(IF st.mode = "ws"
                      THEN [done EXCEPT !.sent =
                               Append(@, StatusMessage(st, "complete",
                                          [response |-> done.reply, intent |-> st.intent,
                                           skills_used |-> done.skills_used]))]
                      ELSE done,
                      "execute")

\* variant: the record of the turn replaces the last record of the table
TurnPersist_overwrite(st, save) ==
    LET skills_used_ == IF st.skills_used # <<>> THEN Arr(st.skills_used) ELSE NoneV
        kind == st.intent.v["intent"]
        row == NewConversation(st.conversation_history, Txt(st.message), st.reply, kind,
                               skills_used_, st.now)
        entry == SemanticEntry(Txt(st.message), st.reply, kind, skills_used_, st.now, st.now)
        committed == [st EXCEPT !.conversation_history =
                                    IF @ = <<>> THEN <<row>>
                                    ELSE [@ EXCEPT ![Len(@)] = [row EXCEPT !.id = Len(st.conversation_history)]],
                                !.mem_log = Append(@, SaveCall("conversation_history", row.id, st.reply))]
    IN  IF save = "commit_raises" THEN TurnFail(st, Raise("OperationalError"))
        ELSE IF save = "raises" THEN TurnFail(committed, Raise("ChromaError"))
        ELSE Finished(IF save = "added"
                      THEN [committed EXCEPT !.memory_collection = Append(@, entry)]
                      ELSE committed,
                      "persist")
\* conversation persistence: save_conversation with the query, the response, the
\* intent kind and the skills used (None for an empty list). The commit raises, or
\* the row is committed and the collection's add then adds, ignores or raises.
TurnPersist(st, save) ==
    LET skills_used_ == IF st.skills_used # <<>> THEN Arr(st.skills_used) ELSE NoneV
        kind == st.intent.v["intent"]
        row == NewConversation(st.conversation_history, Txt(st.message), st.reply, kind,
                               skills_used_, st.now)
        entry == SemanticEntry(Txt(st.message), st.reply, kind, skills_used_, st.now, st.now)
        committed == [st EXCEPT !.conversation_history = Append(@, row),
                                !.mem_log = Append(@, SaveCall("conversation_history", row.id, st.reply))]
    IN  IF save = "commit_raises" THEN TurnFail(st, Raise("OperationalError"))
        ELSE IF save = "raises" THEN TurnFail(committed, Raise("ChromaError"))
        ELSE Finished(IF save = "added"
                      THEN [committed EXCEPT !.memory_collection = Append(@, entry)]
                      ELSE committed,
                      "persist")
\* what the collection's add can do for this turn's entry, and the failing commit
PersistOutcomes(st) ==
    {"commit_raises"} \cup
    SemanticAdds(\E i \in 1..Len(st.memory_collection) :
                    st.memory_collection[i].id = FStr(<<Str("conv_"), Num(st.now)>>))

\* what extract_and_save_preferences can leave for the completion's answer `text`:
\* the states of the passes, and, when a pass saves at all, the exception of a store
\* that fails at the first save
PersonalizeOutcomes(st, text) ==
    LET outs == extract_and_save_preferences(
                    Saved(st.user_preferences, st.user_facts, <<>>, NoneV), st.message, text, st.now)
    IN  outs \cup {Saved(st.user_preferences, st.user_facts, <<>>, Raise("OperationalError")) :
                      o \in {x \in outs : x.saves # <<>>}}
\* personalization update
TurnPersonalize(st, text, saved) ==
    LET asked == [st EXCEPT !.brain_log =
                     Append(@, BrainCall(ExtractionPrompt(Txt(st.message), st.reply), NoneV, NoneV))]
    IN  IF IsRaise(saved.raised)
        THEN TurnFail(IF RuleSaves(st.message) # <<>> THEN st ELSE asked, saved.raised)
        ELSE Finished([asked EXCEPT !.user_preferences = saved.prefs,
                                    !.user_facts = saved.facts,
                                    !.mem_log = @ \o saved.saves],
                      "personalize")

\* variant: the window keeps its oldest entries
add_to_history_keep_oldest(history, user_message, assistant_response) ==
    LET h == history \o <<[role |-> "user", content |-> user_message],
                          [role |-> "assistant", content |-> assistant_response]>>
    IN  IF Len(h) > MAX_CONVERSATION_HISTORY THEN SubSeq(h, 1, MAX_CONVERSATION_HISTORY) ELSE h
\* Brain.add_to_history
add_to_history(history, user_message, assistant_response) ==
    LET h == history \o <<[role |-> "user", content |-> user_message],
                          [role |-> "assistant", content |-> assistant_response]>>
    IN  IF Len(h) > MAX_CONVERSATION_HISTORY
        THEN SubSeq(h, Len(h) - MAX_CONVERSATION_HISTORY + 1, Len(h))
        ELSE h
\* the end of a turn: the rolling window takes the turn, and ask_question returns
\* its response
TurnRemember(st) ==
    LET kept == [st EXCEPT !.brain_history = add_to_history(@, Txt(st.message), st.reply)] IN
    Finished(IF st.mode = "ask"
             THEN [kept EXCEPT !.sent =
                      Append(@, AskResponse(st, [response |-> st.reply, intent |-> st.intent,
                                                 plan |-> st.plan, skills_used |-> st.skills_used]))]
             ELSE kept,
             "history")

----------------------------------------------------------------------------
(* SpecTurn: a server answering POST /ask requests, or one WebSocket connection, *)
(* taking up to MaxTurns queries one after the other                             *)

\* the most queries a handler receives
MaxTurns == 2
\* the queries: the empty string, a command the rules classify, and a compound
\* utterance that goes to the completion capability for its intent and its plan
TurnQueries ==
    {<<>>,
     W.open \o <<" ">> \o W.vscode,
     <<"h","i",","," ","c","a","l","l"," ","m","e"," ","B","o","b">>}
\* completions for the intent prompt: no object, a multi-step intent, an empty object
TurnIntentTexts == {<<Prose>>, IntentJson("multi_step"), <<LB, RB>>}
\* completions for the planning prompt: the empty list, two steps, a step without a
\* skill name, and a list holding a number
TurnPlanTexts ==
    {<<LS, RS>>,
     <<LS, LB, KeyTok("step"), LitTok(Num(1)), Comma,
       KeyTok("description"), LitTok(Str("Say hi")), RB, RS>>,
     <<LS>> \o StepJson(1, "open_app", "Open VS Code") \o <<Comma>>
            \o StepJson(2, "write_file", "Create file") \o <<RS>>,
     <<LS, LitTok(Num(7)), RS>>}
\* what a skill's run does
TurnSkillOutcomes == {Obj([success |-> Bool(TRUE), message |-> Str("Opened vscode")]), Raise("boom")}
\* completions for the direct prompt and for the synthesis prompt
TurnCompletions == {Str("All done.")}
\* completions for the extraction prompt
TurnExtractionTexts ==
    {<<LB, KeyTok("preferences"), LB, KeyTok("editor"), LitTok(Str("vim")), RB, Comma,
       KeyTok("facts"), LB, KeyTok("job"), LitTok(Str("dev")), RB, RB>>}

InitTurn ==
    /\ pc = "receive"
    /\ mode \in {"ask", "ws"}
    /\ message = <<>>
    /\ IdlePipe
    /\ IdleMem
    /\ turns = 0
    /\ sent = <<>>
    /\ reply = NoneV
    /\ turn_context = NoneV
    /\ brain_history = <<>>
    /\ user_facts = {}
    /\ stages = <<>>

\* request.query arrives, or websocket.receive_json() returns
Receive ==
    /\ pc = "receive"
    /\ turns < MaxTurns
    /\ \E query \in TurnQueries : Install(TurnReceive(TurnState, query))
\* websocket.receive_json() raises WebSocketDisconnect, which ends the handler
Disconnect ==
    /\ pc = "receive"
    /\ mode = "ws"
    /\ Install([TurnState EXCEPT !.pc = "closed"])
\* clear_memory (POST /memory/clear): a Brain is constructed, its window, empty from
\* the constructor, is cleared, and the success message is returned. The Brain of
\* server.py that ask_question was given is not named in the handler. `window` is the
\* conversation_history of the Brain the handler constructs.
clear_memory(st) ==
    LET window == <<>>
        cleared == <<>>
    IN  [st EXCEPT !.outcome =
            Obj([message |-> Str("Conversation history cleared from session memory")])]
\* POST /memory/clear arrives between two POST /ask requests
ClearMemory ==
    /\ pc = "receive"
    /\ mode = "ask"
    /\ turns < MaxTurns
    /\ Install(clear_memory(TurnState))
\* get_memory_context(query), get_personalization_context()
AssembleContext ==
    /\ pc = "context"
    /\ \E search \in {"ok", "raises"} :
        \E memory_context \in get_memory_context(memory_collection, user_preferences,
                                                 conversation_history) :
            \E personalization_context \in get_personalization_context(user_preferences, user_facts) :
                Install(TurnContext(TurnState, search, memory_context, personalization_context))
\* extract_intent(query)
ClassifyIntent ==
    /\ pc = "intent"
    /\ \E response \in TurnIntentTexts : Install(TurnIntent(TurnState, response))
\* planner.plan(query, intent)
MakePlan ==
    /\ pc = "plan"
    /\ \E response \in TurnPlanTexts : Install(TurnPlan(TurnState, response))
\* execute_plan(plan, query, brain) or brain.generate_response(query, ...)
Execute ==
    /\ pc = "execute"
    /\ \E runs \in [1..Len(plan.v) -> TurnSkillOutcomes] :
        \E response \in TurnCompletions : Install(TurnExecute(TurnState, runs, response))
\* memory_manager.save_conversation(...)
Persist ==
    /\ pc = "persist"
    /\ \E save \in PersistOutcomes(TurnState) : Install(TurnPersist(TurnState, save))
\* personalization.extract_and_save_preferences(query, response)
Personalize ==
    /\ pc = "personalize"
    /\ \E text \in TurnExtractionTexts :
        \E saved \in PersonalizeOutcomes(TurnState, text) :
            Install(TurnPersonalize(TurnState, text, saved))
\* brain.add_to_history(query, response), and ask_question's return
Remember ==
    /\ pc = "history"
    /\ Install(TurnRemember(TurnState))

NextTurn ==
    \/ Receive
    \/ Disconnect
    \/ ClearMemory
    \/ AssembleContext
    \/ ClassifyIntent
    \/ MakePlan
    \/ Execute
    \/ Persist
    \/ Personalize
    \/ Remember
SpecTurn == InitTurn /\ [][NextTurn]_vars

----------------------------------------------------------------------------
(* Claims about the turn handlers, checked under SpecTurn *)

\* what the client was sent while query k was handled
SentIn(k) == SelectSeq(sent, LAMBDA m : m.turn = k)
StatusesIn(k) == [i \in 1..Len(SentIn(k)) |-> SentIn(k)[i].status]
\* query k has been handled to its end
TurnOver(k) == k < turns \/ (k = turns /\ pc \in {"receive", "closed"})
\* the client was sent an error while query k was handled
ErrorIn(k) == \E i \in 1..Len(SentIn(k)) : SentIn(k)[i].kind = "error"
StatusOrder == <<"processing", "intent_extracted", "plan_created", "complete">>

\* C15: on the streaming channel, every turn that has run to its end without an
\* error message was sent exactly the statuses processing, intent_extracted,
\* plan_created, complete, in that order, and nothing else; and the messages of a
\* turn all come before the messages of the next turn.
C15_StatusesInOrder ==
    mode = "ws" =>
        /\ \A k \in 1..turns : (TurnOver(k) /\ ~ErrorIn(k)) => StatusesIn(k) = StatusOrder
        /\ \A i, j \in 1..Len(sent) : i < j => sent[i].turn <= sent[j].turn
C15_Witness ==
    /\ mode = "ws"
    /\ turns = 2
    /\ pc = "receive"
    /\ ~ErrorIn(1)
    /\ ~ErrorIn(2)
    /\ StatusesIn(1) = StatusOrder
    /\ StatusesIn(2) = StatusOrder
    /\ Len(conversation_history) = 2

StageOrder == <<"context", "intent", "plan", "execute", "persist", "personalize", "history">>
\* the stage has started: it is running or has finished
Started(stage) == pc = stage \/ \E i \in 1..Len(stages) : stages[i] = stage
\* the last row of the conversation table is the record of the current turn
TurnRecordSaved ==
    /\ conversation_history # <<>>
    /\ LET row == conversation_history[Len(conversation_history)] IN
       /\ row.user_message = Txt(message)
       /\ row.assistant_response = reply
       /\ row.created_at = now

\* C16: in both delivery modes the stages a turn has finished are an initial stretch
\* of context, intent, plan, execute, persist, personalize (then the rolling
\* window), the stage that runs is the one after them, persistence starts only with
\* a response produced, and personalization starts only with the turn's
\* conversation record saved: every save of a preference or fact in the turn comes
\* after the save of the record.
C16_StagesInOrder ==
    mode \in {"ask", "ws"} =>
        /\ Len(stages) <= Len(StageOrder)
        /\ \A i \in 1..Len(stages) : stages[i] = StageOrder[i]
        /\ (\E i \in 1..Len(StageOrder) : pc = StageOrder[i]) =>
              pc = StageOrder[Len(stages) + 1]
        /\ Started("persist") => (reply # NoneV /\ ~IsRaise(reply))
        /\ Started("personalize") => TurnRecordSaved
        /\ \A i \in 1..Len(mem_log) :
              mem_log[i].table # "conversation_history" =>
                  /\ i > 1
                  /\ mem_log[1].table = "conversation_history"
                  /\ TurnRecordSaved
C16_Witness ==
    /\ mode = "ask"
    /\ pc = "receive"
    /\ stages = StageOrder
    /\ Len(mem_log) >= 3
    /\ Len(skill_runs) = 2
    /\ user_facts # {}
C16_StreamingWitness ==
    /\ mode = "ws"
    /\ pc = "history"
    /\ stages = SubSeq(StageOrder, 1, 6)
    /\ results = <<>>
    /\ Len(brain_log) >= 3

----------------------------------------------------------------------------
(* One whole turn as a function of the state it starts from, the query and what *)
(* the environment answers: the stages applied one after the other              *)

\* what the environment can answer during a turn started from st with the query
TurnScripts(st, query) ==
    LET received == [st EXCEPT !.message = query, !.now = @ + 1] IN
    [search : {"ok", "raises"},
     memory_context : get_memory_context(st.memory_collection, st.user_preferences,
                                         st.conversation_history),
     personalization_context : get_personalization_context(st.user_preferences, st.user_facts),
     intent_text : TurnIntentTexts,
     plan_text : TurnPlanTexts,
     runs : [{1, 2} -> TurnSkillOutcomes],
     completion : TurnCompletions,
     save : PersistOutcomes(received),
     extraction : {[text |-> text, saved |-> saved] :
                      text \in TurnExtractionTexts,
                      saved \in UNION {PersonalizeOutcomes(received, t) : t \in TurnExtractionTexts}}]
\* the handler state when the turn is over
RunTurn(st, query, script) ==
    LET received == TurnReceive(st, query)
        assembled == IF received.pc # "context" THEN received
                     ELSE TurnContext(received, script.search, script.memory_context,
                                      script.personalization_context)
        classified == IF assembled.pc # "intent" THEN assembled
                      ELSE TurnIntent(assembled, script.intent_text)
        planned == IF classified.pc # "plan" THEN classified
                   ELSE TurnPlan(classified, script.plan_text)
        executed == IF planned.pc # "execute" THEN planned
                    ELSE TurnExecute(planned, script.runs, script.completion)
        persisted == IF executed.pc # "persist" THEN executed
                     ELSE TurnPersist(executed, script.save)
        personalized == IF persisted.pc # "personalize" THEN persisted
                        ELSE TurnPersonalize(persisted, script.extraction.text,
                                             script.extraction.saved)
    IN  IF personalized.pc # "history" THEN personalized ELSE TurnRemember(personalized)

\* the response texts the client was sent for the last query, and what the turn left
Delivered(st) ==
    LET answers == SelectSeq(st.sent, LAMBDA m : /\ m.turn = st.turns
                                                  /\ m.status \in {"200", "complete"})
    IN  [i \in 1..Len(answers) |-> answers[i].payload.response]
Effects(st) ==
    [response |-> Delivered(st),
     user_preferences |-> st.user_preferences,
     user_facts |-> st.user_facts,
     conversation_history |-> st.conversation_history,
     memory_collection |-> st.memory_collection,
     brain_history |-> st.brain_history]
\* the turn came to its end with no exception
RunsThrough(st) == st.pc = "receive" /\ ~IsRaise(st.outcome)

\* C17: started from the same state (tables, collection, rolling window), given the
\* same query and the same answers of the completion capability, the skills and the
\* stores, ask_question and websocket_endpoint deliver the same response text and
\* leave the same preferences, facts, conversation records and rolling window.
C17_SamePipeline ==
    (pc = "receive" /\ turns = 0) =>
        \A query \in TurnQueries : \A script \in TurnScripts(TurnState, query) :
            Effects(RunTurn([TurnState EXCEPT !.mode = "ask"], query, script))
                = Effects(RunTurn([TurnState EXCEPT !.mode = "ws"], query, script))
\* the two handlers agree on every non-empty query whose turn runs to its end
C17_SameWhenRunThrough ==
    (pc = "receive" /\ turns <= 1) =>
        \A query \in TurnQueries \ {<<>>} : \A script \in TurnScripts(TurnState, query) :
            LET asked == RunTurn([TurnState EXCEPT !.mode = "ask"], query, script)
                streamed == RunTurn([TurnState EXCEPT !.mode = "ws"], query, script)
            IN  /\ RunsThrough(asked) <=> RunsThrough(streamed)
                /\ RunsThrough(asked) => Effects(asked) = Effects(streamed)

\* the error responses the client was sent for query k that report an exception
FailuresIn(k) ==
    {i \in 1..Len(SentIn(k)) : SentIn(k)[i].kind = "error" /\ SentIn(k)[i].payload.t = "pystr"}
\* the success responses the client was sent for query k
SuccessesIn(k) == {i \in 1..Len(SentIn(k)) : SentIn(k)[i].status \in {"200", "complete"}}
IsPrefix(s, t) == Len(s) <= Len(t) /\ \A i \in 1..Len(s) : s[i] = t[i]

\* C18: in both paths, a turn in which a stage raised an exception was sent exactly
\* one error response and no success response, also when it is save_conversation or
\* extract_and_save_preferences that raised.
C18_OneErrorNoSuccess ==
    \A k \in 1..turns :
        (TurnOver(k) /\ FailuresIn(k) # {}) =>
            /\ Cardinality(FailuresIn(k)) = 1
            /\ SuccessesIn(k) = {}
\* the step in which an exception reaches the handler's except clause removes and
\* changes nothing in the tables and the collection (a conversation row committed
\* before the collection's add raised stays)
C18_PersistedStateKept ==
    [][(IsRaise(outcome') /\ ~IsRaise(outcome)) =>
          /\ user_preferences' = user_preferences
          /\ user_facts' = user_facts
          /\ IsPrefix(conversation_history, conversation_history')
          /\ memory_collection' = memory_collection]_vars
\* the request/response path alone: one HTTP 500 and nothing else for a failed turn
C18_AskOneError ==
    mode = "ask" =>
        \A k \in 1..turns :
            (TurnOver(k) /\ FailuresIn(k) # {}) =>
                /\ Cardinality(FailuresIn(k)) = 1
                /\ SuccessesIn(k) = {}

----------------------------------------------------------------------------
(* Claims about the order of the keyword rules, checked under SpecIntent *)

\* the five keyword rules in the order they are tested: the intent kind, whether a
\* keyword of the rule occurs in the utterance, and what the rule's extractor
\* finds (the play and search rules return whatever their extractor finds)
RuleTable(msg) ==
    <<[kind |-> "open_app", keyword |-> AnyIn(OpenKeywords, Lower(msg)),
       found |-> Truthy(_extract_app_name(msg))],
      [kind |-> "web_search", keyword |-> Contains(Lower(msg), W.play), found |-> TRUE],
      [kind |-> "web_search", keyword |-> AnyIn(SearchKeywords, Lower(msg)), found |-> TRUE],
      [kind |-> "run_command", keyword |-> AnyIn(RunKeywords, Lower(msg)),
       found |-> Truthy(_extract_command(msg))],
      [kind |-> "read_file", keyword |-> AnyIn(ReadKeywords, Lower(msg)),
       found |-> Truthy(_extract_file_path(msg))]>>
\* the kind of the first rule of the table that satisfies Test, conversational if none
FirstRule(table, Test(_)) ==
    LET hits == {i \in 1..Len(table) : Test(table[i])} IN
    IF hits = {} THEN "conversational"
    ELSE table[CHOOSE i \in hits : \A j \in hits : i <= j].kind
KeywordOccurs(rule) == rule.keyword
RuleFires(rule) == rule.keyword /\ rule.found

(* C21, as claimed: the rule-based pass returns the intent of the first rule, in  *)
(* the order open, play, search, run, read, one of whose keywords occurs in the   *)
(* utterance.                                                                     *)
C21_FirstKeywordWins ==
    IntentKind(_rule_based_extraction(message)) = FirstRule(RuleTable(message), KeywordOccurs)

(* C21, amended: the rule-based pass returns the intent of the first rule, in the *)
(* same order, one of whose keywords occurs in the utterance and whose extractor  *)
(* finds a value (an app name, a command, a file path; the play and search rules  *)
(* need none); a rule whose keyword occurs but whose extractor finds nothing is   *)
(* passed over, and with no rule left the result is conversational. When that     *)
(* result has confidence 0.7 or more it is what extract_intent returns.           *)
C21_FirstFiringRuleWins ==
    /\ IntentKind(_rule_based_extraction(message)) = FirstRule(RuleTable(message), RuleFires)
    /\ (pc = "intent_done" /\ FirstRule(RuleTable(message), RuleFires) # "conversational") =>
          /\ IntentKind(intent) = FirstRule(RuleTable(message), RuleFires)
          /\ brain_log = <<>>
\* an open keyword with nothing after it, passed over for the search rule
C21_Witness ==
    /\ pc = "intent_done"
    /\ RuleTable(message)[1].keyword
    /\ ~RuleTable(message)[1].found
    /\ ~RuleTable(message)[2].keyword
    /\ RuleTable(message)[3].keyword
    /\ IntentKind(intent) = "web_search"
    /\ brain_log = <<>>
----------------------------------------------------------------------------
(* SpecContext: get_memory_context over stored conversations, semantic entries
   and preferences *)

\* the most conversation rows of a store
MaxContextRows == 6
\* the most semantic entries of a store
MaxContextEntries == 4
\* the utterances of the stored turns, by position
ContextWords == <<"one", "two", "three", "four", "five", "six", "seven", "eight">>
\* the stored turn number i
ContextTurn(i) ==
    [user_message |-> Str(ContextWords[i]),
     assistant_response |-> FStr(<<Str("Re: "), Str(ContextWords[i])>>),
     intent |-> Str("conversational"), skills_used |-> NoneV]
\* the clock values of n consecutive saves: the clock never goes back and may read
\* the same value for two consecutive saves
ContextClocks(n) ==
    {clock \in [1..n -> 1..n] :
        /\ n > 0 => clock[1] = 1
        /\ \A i \in 2..n : clock[i] \in {clock[i - 1], clock[i - 1] + 1}}
RECURSIVE ContextRows(_, _)
\* the rows n save_conversation calls leave, the i-th made at clock[i]
ContextRows(n, clock) ==
    IF n = 0 THEN <<>>
    ELSE LET rows == ContextRows(n - 1, clock)
             c == ContextTurn(n)
         IN  Append(rows, NewConversation(rows, c.user_message, c.assistant_response,
                                          c.intent, c.skills_used, clock[n]))
\* the semantic entries of the last k of n saves (the adds of the earlier ones failed)
ContextEntries(n, k, clock) ==
    [i \in 1..k |->
        LET c == ContextTurn(n - k + i)
        IN  SemanticEntry(c.user_message, c.assistant_response, c.intent, c.skills_used,
                          clock[n - k + i], clock[n - k + i])]
\* the preference tables: none, one key, two keys
ContextPreferences ==
    {{}, {NewPreference({}, "theme", "dark", 1)},
     {NewPreference({}, "theme", "dark", 1),
      [NewPreference({}, "voice", "light", 1) EXCEPT !.id = 2]}}

InitContext ==
    /\ pc = "context"
    /\ message = <<>>
    /\ intent = NoneV
    /\ plan = NoneV
    /\ brain_log = <<>>
    /\ results = <<>>
    /\ skills_used = <<>>
    /\ skill_runs = <<>>
    /\ outcome = NoCall
    /\ mem_log = <<>>
    /\ IdleTurn
    /\ user_preferences \in ContextPreferences
    /\ \E n \in 0..MaxContextRows : \E clock \in ContextClocks(n) :
        /\ conversation_history = ContextRows(n, clock)
        /\ now = IF n = 0 THEN 1 ELSE clock[n]
        /\ \E k \in {0, IF n < MaxContextEntries THEN n ELSE MaxContextEntries} :
            memory_collection = ContextEntries(n, k, clock)

GetMemoryContext ==
    /\ pc = "context"
    /\ \E ret \in get_memory_context(memory_collection, user_preferences, conversation_history) :
        outcome' = Returned("get_memory_context", <<>>, ret)
    /\ pc' = "context_done"
    /\ UNCHANGED <<message, intent, plan, brain_log, results, skills_used, skill_runs, memVars>>
    /\ UNCHANGED turnVars

NextContext == GetMemoryContext
SpecContext == InitContext /\ [][NextContext]_vars

\* the lines of a returned context
LinesOf(ret) == IF ret = Str("") THEN <<>> ELSE ret.v
\* the smaller of two numbers
Least(a, b) == IF a < b THEN a ELSE b
\* the lines of a section: nothing for no items, a header and the items' lines otherwise
SectionLength(items, lines_per_item) == IF items = 0 THEN 0 ELSE 1 + items * lines_per_item
\* lines is the semantic section: its header, then one line each for
\* min(3, entries) different entries of the collection
IsSemanticSection(lines, collection) ==
    LET k == Least(3, Len(collection)) IN
    /\ Len(lines) = SectionLength(k, 1)
    /\ k > 0 =>
        /\ lines[1] = Str("## Relevant Past Conversations:")
        /\ \E sel \in InjectiveSeqs(1..Len(collection), k) :
              \A i \in 1..k : lines[i + 1] = FStr(<<Str("- "), collection[sel[i]].document>>)
\* lines is the preference section: its header, then one "- key: value" line for
\* every stored key
IsPreferenceSection(lines, rows) ==
    LET keys == {r.key : r \in rows} IN
    /\ Len(lines) = SectionLength(Cardinality(keys), 1)
    /\ keys # {} =>
        /\ lines[1] = Str("\n## User Preferences:")
        /\ \A key \in keys : \E i \in 2..Len(lines) : \E r \in PrefRowsFor(rows, key) :
              lines[i] = FStr(<<Str("- "), key, Str(": "), r.value>>)
\* lines is the recent section: its header, then the User and Assistant lines of the
\* last min(5, saved) rows saved, oldest first
IsRecentSection(lines, rows) ==
    LET m == Least(5, Len(rows)) IN
    /\ Len(lines) = SectionLength(m, 2)
    /\ m > 0 =>
        /\ lines[1] = Str("\n## Recent Conversation History:")
        /\ \A i \in 1..m :
              /\ lines[2 * i] = FStr(<<Str("User: "), rows[Len(rows) - m + i].user_message>>)
              /\ lines[2 * i + 1] =
                    FStr(<<Str("Assistant: "), rows[Len(rows) - m + i].assistant_response>>)
\* lines is the three sections one after the other
SectionsInOrder(lines, collection, preferences, rows) ==
    LET s == SectionLength(Least(3, Len(collection)), 1)
        p == SectionLength(Cardinality({r.key : r \in preferences}), 1)
    IN  /\ Len(lines) >= s + p
        /\ IsSemanticSection(SubSeq(lines, 1, s), collection)
        /\ IsPreferenceSection(SubSeq(lines, s + 1, s + p), preferences)
        /\ IsRecentSection(SubSeq(lines, s + p + 1, Len(lines)), rows)

\* C22: get_memory_context returns, in this order, a section of up to three stored
\* exchanges, a section of all preferences and a section of the up to five most
\* recently saved turns, oldest first; an empty section contributes no line, and the
\* result is the empty string when all three are empty.
C22_SectionsInFixedOrder ==
    outcome.op = "get_memory_context" =>
        /\ SectionsInOrder(LinesOf(outcome.ret), memory_collection, user_preferences,
                           conversation_history)
        /\ (memory_collection = <<>> /\ user_preferences = {} /\ conversation_history = <<>>)
               => outcome.ret = Str("")
\* the same, for stores whose rows all carry different created_at values
C22_DistinctTimestamps ==
    (\A i, j \in 1..Len(conversation_history) :
        i # j => conversation_history[i].created_at # conversation_history[j].created_at)
    => C22_SectionsInFixedOrder
\* more than five rows of different created_at, more than three entries, two keys
C22_DistinctWitness ==
    /\ outcome.op = "get_memory_context"
    /\ Len(conversation_history) = 6
    /\ \A i, j \in 1..6 :
          i # j => conversation_history[i].created_at # conversation_history[j].created_at
    /\ Len(memory_collection) = 4
    /\ Cardinality(user_preferences) = 2
    /\ Len(outcome.ret.v) = 4 + 3 + 11
----------------------------------------------------------------------------
(* The shape of extract_intent's result *)

\* the intent kinds
IntentKinds == {"open_app", "web_search", "run_command", "read_file", "conversational",
                "multi_step"}
\* i is an Intent: a dict with a kind of IntentKinds under "intent", a number between
\* 0 and 1 under "confidence" (held in hundredths) and a dict under "parameters"
IsIntent(i) ==
    /\ IsDict(i)
    /\ Has(i, "intent") /\ i.v["intent"].t = "str" /\ i.v["intent"].v \in IntentKinds
    /\ Has(i, "confidence") /\ i.v["confidence"].t = "num" /\ i.v["confidence"].v \in 0..100
    /\ Has(i, "parameters") /\ IsDict(i.v["parameters"])

\* C23: whatever the utterance and whatever the completion capability answers, the
\* value extract_intent returns is an Intent.
C23_AlwaysAnIntent == pc = "intent_done" => IsIntent(intent)
\* the same for the results of the rule-based pass alone, no completion being asked
C23_RuleResultsAreIntents == (pc = "intent_done" /\ brain_log = <<>>) => IsIntent(intent)
\* a rule above the threshold has answered
C23_RuleWitness ==
    /\ pc = "intent_done"
    /\ brain_log = <<>>
    /\ IntentKind(intent) = "run_command"
----------------------------------------------------------------------------
(* SpecHistory: the rolling window of one Brain under add_to_history and
   clear_history *)

\* the most calls made on a window that already holds some turns
MaxHistoryCalls == 3
\* the messages of the calls
HistoryMessages == {Str("open vscode"), Str("hello")}
\* the two entries one add_to_history call appends
HistoryEntries(user_message, assistant_response) ==
    <<[role |-> "user", content |-> user_message],
      [role |-> "assistant", content |-> assistant_response]>>
RECURSIVE AddedEntries(_)
\* the entries k earlier calls appended, the i-th call with the messages i and -i
AddedEntries(k) ==
    IF k = 0 THEN <<>> ELSE AddedEntries(k - 1) \o HistoryEntries(Num(k), Num(0 - k))
RECURSIVE WindowAfter(_)
\* the window those k calls leave, starting from the empty window of a new Brain
WindowAfter(k) ==
    IF k = 0 THEN <<>> ELSE add_to_history(WindowAfter(k - 1), Num(k), Num(0 - k))

\* mem_log holds every entry appended since the window was last empty; turns counts
\* the calls made from the initial state
InitHistory ==
    /\ pc = "history"
    /\ message = <<>>
    /\ IdlePipe
    /\ user_preferences = {}
    /\ conversation_history = <<>>
    /\ memory_collection = <<>>
    /\ now = 1
    /\ mode = "none"
    /\ turns = 0
    /\ sent = <<>>
    /\ reply = NoneV
    /\ turn_context = NoneV
    /\ user_facts = {}
    /\ stages = <<>>
    /\ \E k \in 0..(MAX_CONVERSATION_HISTORY \div 2) :
        /\ brain_history = WindowAfter(k)
        /\ mem_log = AddedEntries(k)

AddToHistory ==
    /\ pc = "history"
    /\ turns < MaxHistoryCalls
    /\ \E user_message \in HistoryMessages : \E assistant_response \in {Str("All done.")} :
        /\ brain_history' = add_to_history(brain_history, user_message, assistant_response)
        /\ mem_log' = mem_log \o HistoryEntries(user_message, assistant_response)
    /\ turns' = turns + 1
    /\ UNCHANGED <<pc, pipeVars, user_preferences, conversation_history, memory_collection, now,
                   mode, sent, reply, turn_context, user_facts, stages>>

ClearHistory ==
    /\ pc = "history"
    /\ turns < MaxHistoryCalls
    /\ brain_history' = <<>>
    /\ mem_log' = <<>>
    /\ turns' = turns + 1
    /\ UNCHANGED <<pc, pipeVars, user_preferences, conversation_history, memory_collection, now,
                   mode, sent, reply, turn_context, user_facts, stages>>

NextHistory == AddToHistory \/ ClearHistory
SpecHistory == InitHistory /\ [][NextHistory]_vars

\* the last n elements of a sequence, all of it when it is shorter
LastOf(s, n) == IF Len(s) <= n THEN s ELSE SubSeq(s, Len(s) - n + 1, Len(s))

\* C24: after any sequence of add_to_history calls the window holds at most
\* MAX_CONVERSATION_HISTORY entries, and they are the most recently appended
\* entries, in the order they were appended.
C24_WindowIsMostRecent ==
    /\ Len(brain_history) <= MAX_CONVERSATION_HISTORY
    /\ brain_history = LastOf(mem_log, MAX_CONVERSATION_HISTORY)
\* more entries were appended than the window holds
C24_Witness ==
    /\ Len(mem_log) = MAX_CONVERSATION_HISTORY + 4
    /\ Len(brain_history) = MAX_CONVERSATION_HISTORY
    /\ brain_history[1].content = Num(3)
----------------------------------------------------------------------------
(* Conversation records of the turns, checked under SpecTurn *)

\* C25: conversation records are write-once: every step leaves the records already
\* written as they are and appends at most one; a step outside the persistence stage
\* appends none, so a turn that fails before persistence leaves no record; the step
\* that finishes persistence appends exactly one record, holding the turn's
\* utterance, response and intent kind; and a turn that runs to its end without
\* failure leaves that record last in the table.
C25_RecordsWriteOnce ==
    [][/\ IsPrefix(conversation_history, conversation_history')
       /\ Len(conversation_history') <= Len(conversation_history) + 1
       /\ pc # "persist" => conversation_history' = conversation_history
       /\ (pc = "persist" /\ pc' = "personalize") =>
             /\ Len(conversation_history') = Len(conversation_history) + 1
             /\ LET row == conversation_history'[Len(conversation_history')] IN
                /\ row.user_message = Txt(message)
                /\ row.assistant_response = reply
                /\ row.intent = intent.v["intent"]
       /\ (pc = "history" /\ pc' = "receive") => TurnRecordSaved']_vars
\* two turns have run to their end, one record each; a third turn failing in
\* planning would leave the table as it is
C25_Witness ==
    /\ turns = 2
    /\ pc = "receive"
    /\ stages = StageOrder
    /\ Len(conversation_history) = 2
    /\ conversation_history[1].user_message # conversation_history[2].user_message
----------------------------------------------------------------------------
(* The ids of the semantic entries, checked under SpecConv *)

\* the ids of the entries of the collection
EntryIds(collection) == {collection[i].id : i \in 1..Len(collection)}
\* the step is a save_conversation call that returned without raising
SaveReturns ==
    /\ mem_log' # mem_log
    /\ outcome'.op = "save_conversation"
    /\ outcome'.ret = NoneV

\* C26: every save_conversation call that returns has added one semantic entry, under
\* an id that no entry of the collection had before the call, also when the call
\* reads the clock value an earlier call read.
C26_FreshSemanticId ==
    [][SaveReturns =>
          /\ Len(memory_collection') = Len(memory_collection) + 1
          /\ memory_collection'[Len(memory_collection')].id \notin EntryIds(memory_collection)
          /\ IsPrefix(memory_collection, memory_collection')]_vars
\* the same for the calls that read a clock value no earlier entry was saved at
C26_FreshWhenClockMoved ==
    [][(SaveReturns /\ FStr(<<Str("conv_"), Num(now')>>) \notin EntryIds(memory_collection)) =>
          /\ Len(memory_collection') = Len(memory_collection) + 1
          /\ memory_collection'[Len(memory_collection')].id \notin EntryIds(memory_collection)
          /\ IsPrefix(memory_collection, memory_collection')]_vars
----------------------------------------------------------------------------
(* SpecFrame: save_preference and save_fact calls on tables that hold rows *)

FactKeys == {"job", "city"}
FactValues == {"dev", "Paris"}
\* the tables at the start: no rows; or one conversation record, a preference and a
\* fact saved at clock value 0; or, after two racing first saves, two rows for theme
FrameTables ==
    {[preferences |-> {}, facts |-> {}, conversations |-> <<>>],
     [preferences |-> {NewPreference({}, "theme", "dark", 0)},
      facts |-> {NewFact({}, "job", "dev", 0)},
      conversations |-> ContextRows(1, <<0>>)],
     [preferences |-> {NewPreference({}, "theme", "dark", 0),
                       [NewPreference({}, "theme", "light", 0) EXCEPT !.id = 2]},
      facts |-> {},
      conversations |-> ContextRows(2, <<0, 0>>)]}

InitFrame ==
    /\ pc = "memory"
    /\ message = <<>>
    /\ intent = NoneV
    /\ plan = NoneV
    /\ brain_log = <<>>
    /\ results = <<>>
    /\ skills_used = <<>>
    /\ skill_runs = <<>>
    /\ outcome = NoCall
    /\ memory_collection = <<>>
    /\ now = 0
    /\ mem_log = <<>>
    /\ mode = "none"
    /\ turns = 0
    /\ sent = <<>>
    /\ reply = NoneV
    /\ turn_context = NoneV
    /\ brain_history = <<>>
    /\ stages = <<>>
    /\ \E tables \in FrameTables :
        /\ user_preferences = tables.preferences
        /\ user_facts = tables.facts
        /\ conversation_history = tables.conversations

SaveFact ==
    /\ pc = "memory"
    /\ Len(mem_log) < MaxPrefSaves
    /\ \E fact_key \in FactKeys, fact_value \in FactValues :
        /\ user_facts' \in save_fact(user_facts, fact_key, fact_value, now)
        /\ mem_log' = Append(mem_log, [key |-> fact_key, value |-> fact_value])
        /\ outcome' = Returned("save_fact", <<fact_key, fact_value>>, NoneV)
    /\ UNCHANGED <<pc, message, intent, plan, brain_log, results, skills_used, skill_runs,
                   user_preferences, conversation_history, memory_collection, now>>
    /\ UNCHANGED <<mode, turns, sent, reply, turn_context, brain_history, stages>>

\* SavePreference and Tick leave the fact table alone, as they leave every variable
\* of turnVars
NextFrame == Tick \/ SavePreference \/ SaveFact
SpecFrame == InitFrame /\ [][NextFrame]_vars

\* the step from table `old` to table `new` is an upsert of `value` under the key
\* for which InKey holds, at clock value t: the rows of the other keys are as they
\* were; with no row for the key before, one row is created for it; with rows for
\* it before, the same rows (same id, same created_at) are there after, one of them
\* now holds the value with updated_at = t, and the others are as they were.
\* ValueOf reads the value field of a row.
IsUpsert(old, new, InKey(_), ValueOf(_), value, t) ==
    LET before == {r \in old : InKey(r)}
        after == {r \in new : InKey(r)}
    IN  /\ {r \in new : ~InKey(r)} = {r \in old : ~InKey(r)}
        /\ before = {} =>
              /\ Cardinality(after) = 1
              /\ \A r \in after :
                    /\ ValueOf(r) = value /\ r.created_at = t /\ r.updated_at = t
                    /\ \A o \in old : o.id # r.id
        /\ before # {} =>
              /\ {[id |-> r.id, created_at |-> r.created_at] : r \in after}
                     = {[id |-> r.id, created_at |-> r.created_at] : r \in before}
              /\ Cardinality(after) = Cardinality(before)
              /\ \E r \in after :
                    /\ ValueOf(r) = value /\ r.updated_at = t
                    /\ after \ {r} \subseteq before
\* the value fields of the two tables
PreferenceValueOf(r) == r.value
FactValueOf(r) == r.fact_value

\* C27: a save_preference call for key k is an upsert of the preference table under
\* k that leaves the fact table alone, a save_fact call is an upsert of the fact
\* table that leaves the preference table alone, both leave the conversation records
\* and the collection as they are, and no step removes a key from either table.
C27_UpsertNarrowFrame ==
    [][/\ (mem_log' # mem_log /\ outcome'.op = "save_preference") =>
             /\ IsUpsert(user_preferences, user_preferences',
                         LAMBDA r : r.key = outcome'.args[1], PreferenceValueOf,
                         outcome'.args[2], now)
             /\ user_facts' = user_facts
       /\ (mem_log' # mem_log /\ outcome'.op = "save_fact") =>
             /\ IsUpsert(user_facts, user_facts',
                         LAMBDA r : r.fact_key = outcome'.args[1], FactValueOf,
                         outcome'.args[2], now)
             /\ user_preferences' = user_preferences
       /\ conversation_history' = conversation_history
       /\ memory_collection' = memory_collection
       /\ {r.key : r \in user_preferences} \subseteq {r.key : r \in user_preferences'}
       /\ {r.fact_key : r \in user_facts} \subseteq {r.fact_key : r \in user_facts'}]_vars
\* a fact saved at clock value 0 was given a new value later, with a preference and a
\* conversation record in the tables
C27_Witness ==
    /\ outcome = Returned("save_fact", <<"job", "Paris">>, NoneV)
    /\ \E r \in user_facts :
          r.fact_key = "job" /\ r.fact_value = "Paris" /\ r.created_at = 0 /\ r.updated_at = 2
    /\ \E r \in user_preferences : r.key = "theme"
    /\ conversation_history # <<>>
----------------------------------------------------------------------------
(* The skills a turn records and the skills it invokes, checked under SpecTurn *)

\* the names execute_plan passed to the registry's execute_skill in this turn, in
\* call order: one call per entry of its results, for the skill of that step; none
\* when execute_plan was not called
InvokedSkills == [i \in 1..Len(results) |-> SkillOf(plan.v[i])]
\* the execution stage of the turn has finished
Executed == \E i \in 1..Len(stages) : stages[i] = "execute"

\* C28: the list of skills a turn records (it is returned by POST /ask and saved with
\* the conversation record) is the list of the skills invoked through the registry
\* in that turn, in order.
C28_RecordedAreInvoked == Executed => skills_used = InvokedSkills
\* the same for the turns whose plan was executed and whose steps all name a skill
C28_RecordedWhenPlanRunAndNamed ==
    (Executed /\ results # <<>> /\ \A i \in 1..Len(plan.v) : Truthy(Get(plan.v[i], "skill", NoneV)))
        => skills_used = InvokedSkills
\* a two-step plan was executed
C28_PlanRunWitness ==
    /\ Executed
    /\ Len(results) = 2
    /\ skills_used = <<Str("open_app"), Str("write_file")>>
\* a conversational intent with a plan of two steps: nothing invoked, two recorded
C28_DirectWithPlan ==
    /\ Executed
    /\ IntentKind(intent) = "conversational"
    /\ Len(plan.v) = 2
    /\ results = <<>>
\* a step without a skill name was run as the conversational skill
C28_UnnamedStepRun ==
    /\ Executed
    /\ Len(results) = 1
    /\ ~Has(plan.v[1], "skill")
----------------------------------------------------------------------------
(* Direct completion or plan execution, checked under SpecTurn *)

\* the direct completion calls of the turn: the calls that carry a system instruction
DirectCalls == SelectSeq(brain_log, LAMBDA c : c.system_instruction # NoneV)
\* the synthesis calls of the turn
SynthesisCalls == SelectSeq(brain_log, LAMBDA c : c.prompt = SynthesisPrompt(message, results))
\* the direct call the handler is to make: the query, the memory context (None for
\* the empty one) and the system instruction holding the personalization context
ExpectedDirectCall ==
    BrainCall(<<Txt(message)>>,
              IF turn_context.memory_context = Str("") THEN NoneV ELSE turn_context.memory_context,
              SystemInstruction(turn_context.personalization_context))

\* C29: in a turn whose execution stage has finished, if the intent kind is
\* conversational or the plan is empty, no skill was invoked and the response is the
\* answer to exactly one direct completion call, which carries the memory context
\* and the personalization context; otherwise every step of the plan went through
\* the registry, the response is what execute_plan returns for the results, and no
\* direct call was made.
C29_DirectOrPlan ==
    Executed =>
        IF IntentKind(intent) = "conversational" \/ plan.v = <<>>
        THEN /\ results = <<>>
             /\ skill_runs = <<>>
             /\ DirectCalls = <<ExpectedDirectCall>>
             /\ SynthesisCalls = <<>>
             /\ reply \in TurnCompletions
        ELSE /\ DirectCalls = <<>>
             /\ Len(results) = Len(plan.v)
             /\ \E response \in TurnCompletions :
                   LET combined == CombineResults(results, message, response) IN
                   /\ reply = combined.ret
                   /\ SynthesisCalls = combined.calls
\* a conversational intent with a plan of two steps, answered directly with a memory
\* context that is not empty
C29_Witness ==
    /\ Executed
    /\ IntentKind(intent) = "conversational"
    /\ Len(plan.v) = 2
    /\ turn_context.memory_context # Str("")
    /\ Len(brain_log) = 3
\* a plan of one step was executed and its message is the response
C29_PlanWitness ==
    /\ Executed
    /\ IntentKind(intent) = "open_app"
    /\ Len(results) = 1
    /\ reply = Str("Opened vscode")
----------------------------------------------------------------------------
(* POST /memory/clear, checked under SpecTurn *)

\* POST /memory/clear has just returned its success message
ClearReturned ==
    outcome = Obj([message |-> Str("Conversation history cleared from session memory")])

\* C30: when POST /memory/clear has returned success, the rolling window of the Brain
\* that answers POST /ask is empty.
C30_WindowEmptyAfterClear == ClearReturned => brain_history = <<>>
\* the step in which POST /memory/clear returns leaves the conversation records, the
\* collection, the preferences and the facts as they are
C30_RecordsKeptByClear ==
    [][ClearReturned' =>
          /\ conversation_history' = conversation_history
          /\ memory_collection' = memory_collection
          /\ user_preferences' = user_preferences
          /\ user_facts' = user_facts]_vars
\* the clear came after a turn that left a record and two window entries
C30_ClearAfterTurn ==
    /\ ClearReturned
    /\ Len(conversation_history) = 1
    /\ Len(brain_history) = 2
====
